---- MODULE Spec2Model ----
(***************************************************************************)
(* Provider registry, system-prompt resolution and default/fallback        *)
(* streaming of the chat backend (src/backend).                            *)
(*                                                                         *)
(* Text is modelled as a sequence of one-character strings, so stripping,  *)
(* filtering and joining are computed as the code computes them.  A       *)
(* configured text (a default prompt, a model id) is a one-element         *)
(* sequence holding the whole text.                                        *)
(***************************************************************************)
EXTENDS Integers, Sequences, FiniteSets, TLC

\* ------------------------------------------------------------------------
\* Bounds of the model
\* ------------------------------------------------------------------------

\* Total number of vendor chunks produced in one behaviour (all requests).
MaxChunks == 2

\* The chat requests whose run of aiproviders.stream_response is followed
\* step by step. The requests that overlap with them act on the shared state
\* through OtherRequest.
Reqs == {"r1"}

\* Threads that call the ProviderFactory class methods directly.
Callers == {"t1", "t2"}

\* Values of int(time.time() * 1000) a request may observe.
EpochMs == {1740700800, 1740700801}

\* Messages of the errors a vendor call or a vendor stream may raise.
ErrorMessages == {"timeout", "rate limit"}

\* ------------------------------------------------------------------------
\* configuration.py
\* ------------------------------------------------------------------------

VALID_PROVIDERS == {"gpt", "claude", "gemini", "groq"}

\* Default of the SUPPORTED_PROVIDERS environment variable, in list order.
SUPPORTED_PROVIDERS == <<"gpt", "claude", "gemini">>

Supported == {SUPPORTED_PROVIDERS[i] : i \in DOMAIN SUPPORTED_PROVIDERS}

\* Provider names a caller may pass: the supported ones, a valid provider
\* that is not enabled in this deployment, and an unknown name.
ProviderNames == VALID_PROVIDERS \cup {"invalid_provider"}

GENERIC_SYSTEM_PROMPT == <<"You are a helpful AI assistant that provides accurate and informative responses.">>

GPT_SYSTEM_PROMPT == <<"You are ChatGPT, a helpful AI assistant that provides accurate and informative responses.">>

CLAUDE_SYSTEM_PROMPT == <<"You are Claude, a highly capable AI assistant created by Anthropic, focused on providing accurate, nuanced, and helpful responses.">>

GEMINI_SYSTEM_PROMPT == <<"You are Gemini, a helpful and capable AI assistant created by Google, focused on providing clear and accurate responses.">>

GROQ_SYSTEM_PROMPT == <<"You are a helpful AI assistant powered by Groq, focused on providing fast and accurate responses.">>

\* PROVIDER_SETTINGS without the api_key entry, which is the variable api_key.
PROVIDER_SETTINGS ==
    [p \in VALID_PROVIDERS |->
        CASE p = "gpt"    -> [default_model |-> <<"gpt-4o">>,
                              fallback_model |-> <<"gpt-4o-mini">>,
                              system_prompt |-> GPT_SYSTEM_PROMPT]
          [] p = "claude" -> [default_model |-> <<"claude-3-5-sonnet-latest">>,
                              fallback_model |-> <<"claude-3-5-haiku-latest">>,
                              system_prompt |-> CLAUDE_SYSTEM_PROMPT]
          [] p = "gemini" -> [default_model |-> <<"gemini-2.0-flash">>,
                              fallback_model |-> <<"gemini-1.5-pro">>,
                              system_prompt |-> GEMINI_SYSTEM_PROMPT]
          [] p = "groq"   -> [default_model |-> <<"llama-3.3-70b-versatile">>,
                              fallback_model |-> <<"mixtral-8x7b-32768">>,
                              system_prompt |-> GROQ_SYSTEM_PROMPT]]

\* ------------------------------------------------------------------------
\* Text helpers (str methods used by the code)
\* ------------------------------------------------------------------------

\* str.isspace() of one character.
IsSpace(c) == c \in {" ", "\t", "\n"}

RECURSIVE LStrip(_)
LStrip(s) == IF s # <<>> /\ IsSpace(Head(s)) THEN LStrip(Tail(s)) ELSE s

RECURSIVE RStrip(_)
RStrip(s) ==
    IF s # <<>> /\ IsSpace(s[Len(s)]) THEN RStrip(SubSeq(s, 1, Len(s) - 1)) ELSE s

\* str.strip()
Strip(s) == RStrip(LStrip(s))

\* sep.join(parts)
RECURSIVE Join(_, _)
Join(parts, sep) ==
    IF parts = <<>> THEN <<>>
    ELSE IF Len(parts) = 1 THEN parts[1]
    ELSE parts[1] \o sep \o Join(Tail(parts), sep)

\* [f(x) for x in s if keep(x)] for the two comprehensions the code uses.
RECURSIVE ContentsWithRole(_, _)
ContentsWithRole(messages, role) ==
    IF messages = <<>> THEN <<>>
    ELSE (IF Head(messages).role = role THEN <<Head(messages).content>> ELSE <<>>)
         \o ContentsWithRole(Tail(messages), role)

RECURSIVE ContentsWithoutRole(_, _)
ContentsWithoutRole(messages, role) ==
    IF messages = <<>> THEN <<>>
    ELSE (IF Head(messages).role # role THEN <<Head(messages).content>> ELSE <<>>)
         \o ContentsWithoutRole(Tail(messages), role)

\* A comprehension without its role test.
KeepAllRoles(messages, role) ==
    [i \in DOMAIN messages |-> [role |-> messages[i].role, content |-> messages[i].content]]

RECURSIVE WithoutRole(_, _)
WithoutRole(messages, role) ==
    IF messages = <<>> THEN <<>>
    ELSE (IF Head(messages).role # role
             THEN <<[role |-> Head(messages).role, content |-> Head(messages).content]>>
             ELSE <<>>)
         \o WithoutRole(Tail(messages), role)

\* ------------------------------------------------------------------------
\* prompt_engineering.py
\* ------------------------------------------------------------------------

NotSpaceOrPeriod(c) == ~IsSpace(c) /\ c # "."

\* A filter that drops the empty system messages only.
NonEmptySystemMessage(msg) == msg # <<>>

ValidSystemMessage(msg) ==
    /\ msg # <<>>
    /\ Strip(msg) # <<>>
    /\ Len(SelectSeq(msg, NotSpaceOrPeriod)) > 0

\* A table that gives every provider the generic prompt.
GenericPromptForAll == [p \in VALID_PROVIDERS |-> GENERIC_SYSTEM_PROMPT]

provider_prompts ==
    [p \in VALID_PROVIDERS |->
        CASE p = "gpt"    -> GPT_SYSTEM_PROMPT
          [] p = "claude" -> CLAUDE_SYSTEM_PROMPT
          [] p = "gemini" -> GEMINI_SYSTEM_PROMPT
          [] p = "groq"   -> GROQ_SYSTEM_PROMPT]

\* The provider argument None is the value "None".
get_system_prompt(messages, provider) ==
    LET system_messages       == ContentsWithRole(messages, "system")
        valid_system_messages == SelectSeq(system_messages, ValidSystemMessage)
    IN  IF messages # <<>> /\ valid_system_messages # <<>>
           THEN Join(valid_system_messages, <<" ">>)
        ELSE IF provider # "None"
           THEN (IF provider \in DOMAIN provider_prompts
                    THEN provider_prompts[provider]
                    ELSE GENERIC_SYSTEM_PROMPT)
        ELSE GENERIC_SYSTEM_PROMPT


\* ------------------------------------------------------------------------
\* State
\* ------------------------------------------------------------------------

VARIABLES
    api_key,        \* PROVIDER_SETTINGS[p]['api_key'] is set (truthy)
    instances,      \* ProviderFactory._instances: name -> the cached adapter, an index
                    \* into adapters[name], NoInstance if the name is absent
    adapters,       \* name -> the adapter objects constructed for it, in order
    tpc,            \* factory caller: position in get_provider / initialize_all_providers
    top,            \* factory caller: the class method it runs
    targ,           \* factory caller: provider_name
    tidx,           \* factory caller: loop position of initialize_all_providers
    tnew,           \* factory caller: the adapter built by the constructor, not yet stored
    tret,           \* factory caller: outcome of its last call
    tafter,         \* history: first_instance[provider_name] when the call began
    tlog,           \* history: the error record the thread's call logged, if any
    first_instance, \* history: the adapter the first successful get_provider returned
    rpc,            \* request: where aiproviders.stream_response is suspended
    rprovider,      \* request: the provider argument
    rmessages,      \* request: request.messages
    rmessage_id,    \* request: message_id
    rattempt,       \* request: the attempt try_with_models is in
    rcalls,         \* history: the vendor calls issued for the request
    rchunks,        \* history: the chunks the vendor streams produced for the request
    rerrors,        \* history: the errors that ended the request's attempts
    rout,           \* history: the frames yielded to the request's consumer
    rraised,        \* history: the errors raised to the request's consumer
    revents,        \* history: the calls stream_response made for the request to
                    \* get_system_prompt and to log_conversation_entry, in order
    rcancel,        \* request: how its consumer abandoned it, if it did
    chat,           \* the POST /chat/{provider} call: where it is, its arguments, the
                    \* logging-store calls it made, the status and the frames sent
    applied,        \* the last call of a function without side effects: its name,
                    \* its arguments and what it returned or raised
    health          \* the health_check_provider call: where it is, its argument, whether
                    \* it read the clock, what the adapter did and what it returned

\* What no step of the registry or of a stream changes.
static_vars == <<api_key, applied, health, rcancel, chat>>

factory_vars == <<static_vars, instances, adapters>>

caller_vars == <<tpc, top, targ, tidx, tnew, tret, tafter, tlog, first_instance>>

request_vars == <<rpc, rprovider, rmessages, rmessage_id, rattempt, rcalls, rchunks,
                  rerrors, rout, rraised, revents>>

vars == <<api_key, instances, adapters, tpc, top, targ, tidx, tnew, tret, tafter, tlog,
          first_instance, rpc, rprovider, rmessages, rmessage_id, rattempt, rcalls,
          rchunks, rerrors, rout, rraised, revents, rcancel, chat, applied, health>>

NoInstance == 0

\* ------------------------------------------------------------------------
\* providers/factory.py
\* ------------------------------------------------------------------------

\* ProviderFactory._provider_classes; the value is the provider_name the
\* class passes to BaseProvider.__init__.
provider_classes ==
    [p \in VALID_PROVIDERS |->
        CASE p = "gpt"    -> "gpt"
          [] p = "claude" -> "claude"
          [] p = "gemini" -> "gemini"
          [] p = "groq"   -> "groq"]

\* A supported test against the names the program knows instead of the
\* names the deployment supports.
InValidProviders(provider_name) == provider_name \in VALID_PROVIDERS

\* get_provider: provider_name in SUPPORTED_PROVIDERS
InSupportedProviders(provider_name) == provider_name \in Supported

\* _initialize_provider without its API-key test.
ReachesConstructorWithoutKey(provider_name) ==
    /\ provider_name \in DOMAIN PROVIDER_SETTINGS
    /\ provider_name \in DOMAIN provider_classes

\* The early returns of _initialize_provider: the constructor is reached
\* only when none of them is taken.
ReachesConstructor(provider_name) ==
    /\ provider_name \in DOMAIN PROVIDER_SETTINGS
    /\ provider_name \in DOMAIN provider_classes
    /\ api_key[provider_name]

\* provider_class(api_key=..., default_model=..., ...): BaseProvider.__init__
NewAdapter(provider_name) ==
    [provider_name  |-> provider_classes[provider_name],
     default_model  |-> PROVIDER_SETTINGS[provider_name].default_model,
     fallback_model |-> PROVIDER_SETTINGS[provider_name].fallback_model,
     system_prompt  |-> PROVIDER_SETTINGS[provider_name].system_prompt]

UnsupportedError(provider_name) ==
    [kind |-> "error", status_code |-> 400,
     detail |-> <<"Provider ", provider_name, " not supported">>]

UnavailableError(provider_name) ==
    [kind |-> "error", status_code |-> 500,
     detail |-> <<"Provider ", provider_name, " could not be initialized">>]

Returned(instance) == [kind |-> "ok", instance |-> instance]

Pending == [kind |-> "pending"]

\* Where _initialize_provider returns to.
AfterInitialize(t) ==
    IF top[t] = "get_provider"
       THEN /\ tpc' = [tpc EXCEPT ![t] = "gp_recheck"]
            /\ tidx' = tidx
       ELSE /\ tpc' = [tpc EXCEPT ![t] = "ia_loop"]
            /\ tidx' = [tidx EXCEPT ![t] = @ + 1]

\* The locals of _initialize_provider are gone when it returns.
NoLocal(t) == [tnew EXCEPT ![t] = NoInstance]

\* logger.error of the handler that swallows the constructor's exception
\* (lines 83-84); nothing is raised to the caller of _initialize_provider.
InitializeError == "Error initializing provider"

\* get_provider is entered: the supported check of line 39.
CallGetProvider(t, provider_name) ==
    /\ tpc[t] = "idle"
    /\ top' = [top EXCEPT ![t] = "get_provider"]
    /\ targ' = [targ EXCEPT ![t] = provider_name]
    /\ tafter' = [tafter EXCEPT ![t] = first_instance[provider_name]]
    /\ tlog' = [tlog EXCEPT ![t] = "none"]
    /\ IF ~InSupportedProviders(provider_name)
          THEN /\ tret' = [tret EXCEPT ![t] = UnsupportedError(provider_name)]
               /\ tpc' = tpc
          ELSE /\ tret' = [tret EXCEPT ![t] = Pending]
               /\ tpc' = [tpc EXCEPT ![t] = "gp_check"]
    /\ UNCHANGED <<factory_vars, tidx, tnew, first_instance,
                 request_vars>>

\* Line 42: if provider_name not in cls._instances
GpCheck(t) ==
    /\ tpc[t] = "gp_check"
    /\ tpc' = [tpc EXCEPT ![t] =
                  IF instances[targ[t]] = NoInstance THEN "init" ELSE "gp_recheck"]
    /\ UNCHANGED <<factory_vars, top, targ, tidx, tnew, tret, tafter, tlog, first_instance,
                 request_vars>>

\* _initialize_provider up to the constructor call (lines 58-81, right-hand
\* side of the assignment); the constructor returns or raises.
InitConstruct(t, ctor_ok) ==
    /\ tpc[t] = "init"
    /\ IF ReachesConstructor(targ[t]) /\ ctor_ok
          THEN /\ adapters' = [adapters EXCEPT ![targ[t]] = Append(@, NewAdapter(targ[t]))]
               /\ tnew' = [tnew EXCEPT ![t] = Len(adapters[targ[t]]) + 1]
               /\ tpc' = [tpc EXCEPT ![t] = "init_store"]
               /\ UNCHANGED <<tidx, tlog>>
          ELSE /\ AfterInitialize(t)
               /\ tlog' = [tlog EXCEPT ![t] = IF ReachesConstructor(targ[t])
                                                 THEN InitializeError
                                                 ELSE @]
               /\ UNCHANGED <<adapters, tnew>>
    /\ UNCHANGED <<static_vars, instances, top, targ, tret, tafter, first_instance,
                 request_vars>>

\* Line 74: cls._instances[provider_name] = <the new adapter>
InitStore(t) ==
    /\ tpc[t] = "init_store"
    /\ instances' = [instances EXCEPT ![targ[t]] = tnew[t]]
    /\ tnew' = NoLocal(t)
    /\ AfterInitialize(t)
    /\ UNCHANGED <<static_vars, adapters, top, targ, tret, tafter, tlog, first_instance,
                 request_vars>>

\* Line 45: the second membership test, raising the 500 error.
GpRecheck(t) ==
    /\ tpc[t] = "gp_recheck"
    /\ IF instances[targ[t]] = NoInstance
          THEN /\ tret' = [tret EXCEPT ![t] = UnavailableError(targ[t])]
               /\ tpc' = [tpc EXCEPT ![t] = "idle"]
          ELSE /\ tret' = tret
               /\ tpc' = [tpc EXCEPT ![t] = "gp_return"]
    /\ UNCHANGED <<factory_vars, top, targ, tidx, tnew, tafter, tlog, first_instance,
                 request_vars>>

\* Line 48: return cls._instances[provider_name]
GpReturn(t) ==
    /\ tpc[t] = "gp_return"
    /\ tret' = [tret EXCEPT ![t] = Returned(instances[targ[t]])]
    /\ tpc' = [tpc EXCEPT ![t] = "idle"]
    /\ first_instance' =
          IF first_instance[targ[t]] = NoInstance
             THEN [first_instance EXCEPT ![targ[t]] = instances[targ[t]]]
             ELSE first_instance
    /\ UNCHANGED <<factory_vars, top, targ, tidx, tnew, tafter, tlog,
                 request_vars>>

\* initialize_all_providers is entered.
CallInitializeAll(t) ==
    /\ tpc[t] = "idle"
    /\ top' = [top EXCEPT ![t] = "initialize_all_providers"]
    /\ tidx' = [tidx EXCEPT ![t] = 1]
    /\ tpc' = [tpc EXCEPT ![t] = "ia_loop"]
    /\ tret' = [tret EXCEPT ![t] = Pending]
    /\ tafter' = [tafter EXCEPT ![t] = NoInstance]
    /\ tlog' = [tlog EXCEPT ![t] = "none"]
    /\ UNCHANGED <<factory_vars, targ, tnew, first_instance,
                 request_vars>>

\* Lines 88-90: one turn of the loop over SUPPORTED_PROVIDERS.
IaLoop(t) ==
    /\ tpc[t] = "ia_loop"
    /\ IF tidx[t] > Len(SUPPORTED_PROVIDERS)
          THEN /\ tpc' = [tpc EXCEPT ![t] = "idle"]
               /\ tret' = [tret EXCEPT ![t] = [kind |-> "none"]]
               /\ tidx' = [tidx EXCEPT ![t] = 1]
               /\ targ' = targ
          ELSE /\ targ' = [targ EXCEPT ![t] = SUPPORTED_PROVIDERS[tidx[t]]]
               /\ tret' = tret
               /\ IF instances[SUPPORTED_PROVIDERS[tidx[t]]] = NoInstance
                     THEN /\ tpc' = [tpc EXCEPT ![t] = "init"]
                          /\ tidx' = tidx
                     ELSE /\ tpc' = tpc
                          /\ tidx' = [tidx EXCEPT ![t] = @ + 1]
    /\ UNCHANGED <<factory_vars, top, tnew, tafter, tlog, first_instance,
                 request_vars>>

\* get_all_providers: return cls._instances (the dictionary itself, not a
\* copy of it).
CallGetAllProviders(t) ==
    /\ tpc[t] = "idle"
    /\ top' = [top EXCEPT ![t] = "get_all_providers"]
    /\ tret' = [tret EXCEPT ![t] = [kind |-> "instances"]]
    /\ tafter' = [tafter EXCEPT ![t] = NoInstance]
    /\ tlog' = [tlog EXCEPT ![t] = "none"]
    /\ UNCHANGED <<factory_vars, tpc, targ, tidx, tnew, first_instance,
                 request_vars>>

CallersIdle ==
    /\ tpc = [t \in Callers |-> "idle"]
    /\ top = [t \in Callers |-> "none"]
    /\ targ = [t \in Callers |-> "gpt"]
    /\ tidx = [t \in Callers |-> 1]
    /\ tnew = [t \in Callers |-> NoInstance]
    /\ tret = [t \in Callers |-> [kind |-> "none"]]
    /\ tafter = [t \in Callers |-> NoInstance]
    /\ tlog = [t \in Callers |-> "none"]
    /\ first_instance = [p \in ProviderNames |-> NoInstance]

\* No function has been applied.
NotApplied == [fn |-> "none"]

\* No health_check_provider call has been made.
HealthIdle == [pc |-> "idle"]

\* The consumer of the request's stream is still there.
NotCancelled == [cancelled |-> FALSE]

\* No POST /chat/{provider} call has been made.
ChatIdle == [pc |-> "idle"]

RequestsIdle ==
    /\ applied = NotApplied
    /\ health = HealthIdle
    /\ rpc = [r \in Reqs |-> "idle"]
    /\ rprovider = [r \in Reqs |-> "gpt"]
    /\ rmessages = [r \in Reqs |-> <<>>]
    /\ rmessage_id = [r \in Reqs |-> <<>>]
    /\ rattempt = [r \in Reqs |-> "none"]
    /\ rcalls = [r \in Reqs |-> <<>>]
    /\ rchunks = [r \in Reqs |-> <<>>]
    /\ rerrors = [r \in Reqs |-> <<>>]
    /\ rout = [r \in Reqs |-> <<>>]
    /\ rraised = [r \in Reqs |-> <<>>]
    /\ revents = [r \in Reqs |-> <<>>]
    /\ rcancel = [r \in Reqs |-> NotCancelled]
    /\ chat = ChatIdle

\* The factory right after providers/factory.py was imported: an empty
\* cache; which API keys the environment sets is the deployment's choice.
InitFactory ==
    /\ api_key \in [VALID_PROVIDERS -> BOOLEAN]
    /\ api_key["groq"]
    /\ instances = [p \in ProviderNames |-> NoInstance]
    /\ adapters = [p \in ProviderNames |-> <<>>]
    /\ CallersIdle
    /\ RequestsIdle

NextFactory ==
    \/ \E t \in Callers, provider_name \in ProviderNames : CallGetProvider(t, provider_name)
    \/ \E t \in Callers : GpCheck(t)
    \/ \E t \in Callers, ctor_ok \in BOOLEAN : InitConstruct(t, ctor_ok)
    \/ \E t \in Callers : InitStore(t)
    \/ \E t \in Callers : GpRecheck(t)
    \/ \E t \in Callers : GpReturn(t)
    \/ \E t \in Callers : CallInitializeAll(t)
    \/ \E t \in Callers : IaLoop(t)
    \/ \E t \in Callers : CallGetAllProviders(t)

SpecFactory == InitFactory /\ [][NextFactory]_vars


\* ------------------------------------------------------------------------
\* constants.py, providers/base.py: SSE framing
\* ------------------------------------------------------------------------

DATA_PREFIX == "data: "

NEWLINE_SEPARATOR == "\n\n"

DONE_MARKER == "[DONE]"

\* SSEFormat.DONE_MESSAGE
DONE_MESSAGE == <<DATA_PREFIX, DONE_MARKER, NEWLINE_SEPARATOR>>

\* A json.dumps that escapes the quotation mark only.
JsonEscapeQuoteOnly(c) == IF c = "\"" THEN "\\\"" ELSE c

\* json.dumps of one character inside a string.
JsonEscape(c) ==
    CASE c = "\"" -> "\\\""
      [] c = "\\" -> "\\\\"
      [] c = "\n" -> "\\n"
      [] c = "\t" -> "\\t"
      [] OTHER    -> c

\* json.dumps of a str.
JsonString(text) == <<"\"">> \o [i \in DOMAIN text |-> JsonEscape(text[i])] \o <<"\"">>

\* json.dumps({"id": ..., "delta": {"content": ..., "model": ...}})
JsonDumps(data) ==
    <<"{">> \o JsonString(<<"id">>) \o <<": ">> \o JsonString(data.id) \o <<", ">>
        \o JsonString(<<"delta">>) \o <<": ", "{">>
        \o JsonString(<<"content">>) \o <<": ">> \o JsonString(data.delta.content) \o <<", ">>
        \o JsonString(<<"model">>) \o <<": ">> \o JsonString(data.delta.model)
        \o <<"}", "}">>

\* A frame that carries the content without the JSON document around it.
format_stream_chunk_raw(message_id, content, model) ==
    <<"data: ">> \o content \o <<"\n\n">>

format_stream_chunk(message_id, content, model) ==
    LET data == [id |-> message_id, delta |-> [content |-> content, model |-> model]]
    IN  <<"data: ">> \o JsonDumps(data) \o <<"\n\n">>

format_done_message == <<"data: ", "[DONE]", "\n\n">>

\* ------------------------------------------------------------------------
\* providers/*_provider.py: the four adapters
\* ------------------------------------------------------------------------

\* A vendor chunk: its text field, which may be None (has_text = FALSE); a
\* malformed chunk lacks the fields the adapter reads (well_formed = FALSE).
NoText == [well_formed |-> TRUE, has_text |-> FALSE, text |-> <<>>]

TextChunk(text) == [well_formed |-> TRUE, has_text |-> TRUE, text |-> text]

Malformed == [well_formed |-> FALSE, has_text |-> FALSE, text |-> <<>>]

\* What a vendor stream can deliver as its n-th chunk: a chunk without
\* text, with the empty text, with a text (here the digits of n, so that
\* the chunks of one stream differ), or a chunk without the fields the
\* adapter reads. Anthropic's text_stream delivers strings only.
ChunkKinds == {"no text", "empty text", "text", "malformed"}

VendorChunkKinds(provider) ==
    IF provider = "claude" THEN ChunkKinds \ {"no text", "malformed"} ELSE ChunkKinds

VendorChunkOfKind(kind, n) ==
    CASE kind = "no text"    -> NoText
      [] kind = "empty text" -> TextChunk(<<>>)
      [] kind = "text"       -> TextChunk(<<ToString(n)>>)
      [] kind = "malformed"  -> Malformed

\* Reading the text of a chunk raises: chunk.choices[0].delta.content of
\* the OpenAI and Groq adapters, chunk.text of the Gemini adapter.
ChunkRaises(provider, chunk) == provider # "claude" /\ ~chunk.well_formed

\* str() of the AttributeError.
ChunkFieldError(provider) ==
    IF provider = "gemini" THEN "object has no attribute 'text'"
                           ELSE "object has no attribute 'choices'"

\* format_messages of the adapter of the provider; system_prompt is the
\* adapter's self.system_prompt when it runs.
format_messages(provider, messages, system_prompt) ==
    IF provider \in {"gpt", "groq"}
       THEN LET system_messages == ContentsWithRole(messages, "system")
                prompt          == IF system_messages # <<>>
                                      THEN Join(system_messages, <<" ">>)
                                      ELSE system_prompt
            IN  <<[role |-> "system", content |-> prompt]>>
                    \o WithoutRole(messages, "system")
    ELSE IF provider = "claude"
       THEN WithoutRole(messages, "system")
    ELSE ContentsWithoutRole(messages, "system")

\* The system instruction the vendor receives with a call: the head entry of
\* the message list for OpenAI and Groq, the system / system_instruction
\* argument for Anthropic and Gemini.
NotPassed == <<"<no system argument>">>

\* The vendor call an adapter's stream_response issues.
VendorCall(provider, attempt, formatted_messages, model, system_prompt) ==
    [attempt  |-> attempt,
     model    |-> model,
     messages |-> formatted_messages,
     system   |-> IF provider \in {"claude", "gemini"} THEN system_prompt ELSE NotPassed]

\* An adapter that yields the frame of a chunk twice.
ChunkFramesTwice(provider, message_id, chunk, model) ==
    IF chunk.has_text
       THEN <<format_stream_chunk(message_id, chunk.text, model),
              format_stream_chunk(message_id, chunk.text, model)>>
       ELSE <<>>

\* The frames an adapter's stream_response yields for one vendor chunk.
ChunkFrames(provider, message_id, chunk, model) ==
    IF provider \in {"gpt", "groq"}
       THEN (IF chunk.has_text
                THEN <<format_stream_chunk(message_id, chunk.text, model)>>
                ELSE <<>>)
    ELSE IF provider = "claude"
       THEN <<format_stream_chunk(message_id, chunk.text, model)>>
    ELSE (IF chunk.has_text /\ chunk.text # <<>>
             THEN <<format_stream_chunk(message_id, chunk.text, model)>>
             ELSE <<>>)

\* An adapter whose except clause logs the error and returns.
AdapterSwallows(provider) == FALSE

\* The except clause of an adapter's stream_response ends with raise.
AdapterReraises(provider) == provider \in VALID_PROVIDERS

\* An adapter that ends its stream without the sentinel.
StreamEndsSilently == <<>>

\* The frames an adapter's stream_response yields after the vendor stream
\* is exhausted.
StreamEndFrames == <<format_done_message>>

\* ------------------------------------------------------------------------
\* providers/base.py try_with_models, aiproviders.py stream_response
\* ------------------------------------------------------------------------

\* Conversations of the chat requests of the model: two turns without a
\* system message, a system message with content, a system message of
\* whitespace and a period.
TextHi == <<"h", "i">>

TextTerse == <<"B", "e">>

TextDot == <<" ", ".", " ">>

Message(role, content) == [role |-> role, content |-> content]

RequestConversations ==
    { <<Message("user", TextHi), Message("assistant", TextTerse), Message("user", TextHi)>>,
      <<Message("system", TextTerse), Message("user", TextHi)>>,
      <<Message("system", TextDot), Message("user", TextHi)>> }

RECURSIVE SumLen(_, _)
SumLen(f, S) ==
    IF S = {} THEN 0
    ELSE LET x == CHOOSE y \in S : TRUE IN Len(f[x]) + SumLen(f, S \ {x})

\* Vendor chunks produced so far, over all requests.
TotalChunks == SumLen(rchunks, Reqs)

Last(seq) == seq[Len(seq)]

\* f"{provider}-{int(time.time() * 1000)}"
MessageId(provider, ms) == <<provider, "-", ToString(ms)>>

\* ProviderFactory.get_provider run without interruption (it has no await):
\* the cache and the adapters after the call; the call raised when the name
\* is still absent from the cache.
GetProvider(provider_name, ctor_ok) ==
    LET builds == /\ instances[provider_name] = NoInstance
                  /\ ReachesConstructor(provider_name)
                  /\ ctor_ok
        built  == [adapters EXCEPT ![provider_name] = Append(@, NewAdapter(provider_name))]
    IN  IF ~InSupportedProviders(provider_name)
           THEN [adapters |-> adapters, instances |-> instances,
                 raised |-> <<UnsupportedError(provider_name)>>]
        ELSE IF builds
           THEN [adapters  |-> built,
                 instances |-> [instances EXCEPT ![provider_name] = Len(built[provider_name])],
                 raised    |-> <<>>]
        ELSE [adapters |-> adapters, instances |-> instances,
              raised   |-> IF instances[provider_name] = NoInstance
                              THEN <<UnavailableError(provider_name)>>
                              ELSE <<>>]

\* Whether the adapter constructor returns (TRUE) or raises (FALSE), for the
\* calls in which get_provider can reach it.
ConstructorOutcomes(provider_name) ==
    IF /\ InSupportedProviders(provider_name)
       /\ instances[provider_name] = NoInstance
       /\ ReachesConstructor(provider_name)
       THEN BOOLEAN
       ELSE {TRUE}

\* A fallback attempt that resumes from the last message instead of
\* formatting the whole conversation again.
OpenAttemptFromLastMessage(provider, attempt, messages, adapter) ==
    VendorCall(provider, attempt,
               format_messages(provider,
                               IF attempt = "default" THEN messages
                                                      ELSE <<messages[Len(messages)]>>,
                               adapter.system_prompt),
               IF attempt = "default" THEN adapter.default_model ELSE adapter.fallback_model,
               adapter.system_prompt)

\* A try_with_models that passes self.default_model in both attempts.
OpenAttemptDefaultModel(provider, attempt, messages, adapter) ==
    VendorCall(provider, attempt,
               format_messages(provider, messages, adapter.system_prompt),
               adapter.default_model,
               adapter.system_prompt)

\* The vendor call that opens an attempt of try_with_models: format_messages
\* and the adapter's stream_response up to its first await.
OpenAttempt(provider, attempt, messages, adapter) ==
    VendorCall(provider, attempt,
               format_messages(provider, messages, adapter.system_prompt),
               IF attempt = "default" THEN adapter.default_model ELSE adapter.fallback_model,
               adapter.system_prompt)

\* A terminal error that does not say which provider failed.
BothFailedErrorUnnamed(provider_name, e, inner_e) ==
    [kind |-> "error", status_code |-> 500,
     detail |-> <<"Both default and fallback models failed: ", inner_e>>]

\* The HTTPException try_with_models raises when the fallback attempt fails.
BothFailedError(provider_name, e, inner_e) ==
    [kind |-> "error", status_code |-> 500,
     detail |-> <<"Both default and fallback models failed for provider ",
                  provider_name, ": ", inner_e>>]

\* A try_with_models that starts the fallback attempt again when it fails.
RetryFallback(attempt) == "fallback"

\* A try_with_models without a fallback attempt.
NoFallback(attempt) == "raise"

\* try_with_models: what follows an attempt that raised.
AfterFailedAttempt(attempt) == IF attempt = "default" THEN "fallback" ELSE "raise"

\* A stream_response without its own test of the provider name.
ProviderNotTested(provider) == provider \in VALID_PROVIDERS

\* stream_response: provider in SUPPORTED_PROVIDERS
ProviderSupported(provider) == provider \in Supported

\* A stream_response that resolves the prompt a second time.
PromptResolvedTwice == <<"get_system_prompt", "get_system_prompt">>

\* The get_system_prompt calls of stream_response: one, before the loop.
PromptResolution == <<"get_system_prompt">>

\* provider_instance.system_prompt = get_system_prompt(request.messages, provider)
AssignSystemPrompt(adapter, messages, provider) ==
    [adapter EXCEPT !.system_prompt = get_system_prompt(messages, provider)]

\* format_messages reads m.content of every message that is not a system
\* message (and get_system_prompt reads it of the system messages only): an
\* object without that attribute passes get_system_prompt and raises here.
FormatMessagesRaises(messages) ==
    \E i \in DOMAIN messages :
        messages[i].role # "system" /\ "content" \notin DOMAIN messages[i]

\* str() of the AttributeError.
FormatAttributeError == "object has no attribute 'content'"

\* try_with_models when format_messages raises: line 54 raises inside the
\* try, the handler of line 57 runs line 60, which raises inside the inner
\* try, and line 64 raises the terminal error, all within one pull. input is
\* the argument of the format_messages call that raised.
FormatFailure(provider_name, messages) ==
    LET e       == [attempt |-> "default", message |-> FormatAttributeError,
                    input |-> messages]
        inner_e == [attempt |-> AfterFailedAttempt("default"),
                    message |-> FormatAttributeError, input |-> messages]
    IN  IF AfterFailedAttempt("default") = "raise"
           THEN [errors |-> <<e>>, attempt |-> "default",
                 raised |-> BothFailedError(provider_name, e.message, e.message)]
           ELSE [errors |-> <<e, inner_e>>, attempt |-> AfterFailedAttempt("default"),
                 raised |-> BothFailedError(provider_name, e.message, inner_e.message)]

\* The first pull of stream_response(request, provider): everything up to
\* the first await, which is the default attempt's vendor call.
StartRequest(r, provider, messages, ms, ctor_ok) ==
    /\ rpc[r] = "idle"
    /\ ctor_ok \in ConstructorOutcomes(provider)
    /\ rprovider' = [rprovider EXCEPT ![r] = provider]
    /\ rmessages' = [rmessages EXCEPT ![r] = messages]
    /\ IF ~ProviderSupported(provider)
          THEN /\ rraised' = [rraised EXCEPT ![r] = Append(@, UnsupportedError(provider))]
               /\ rpc' = [rpc EXCEPT ![r] = "raised"]
               /\ UNCHANGED <<instances, adapters, rmessage_id, rattempt, rcalls, rerrors,
                              revents>>
          ELSE LET got == GetProvider(provider, ctor_ok)
                   id  == got.instances[provider]
               IN  /\ rmessage_id' = [rmessage_id EXCEPT ![r] = MessageId(provider, ms)]
                   /\ instances' = got.instances
                   /\ IF got.raised # <<>>
                         THEN /\ adapters' = got.adapters
                              /\ rraised' = [rraised EXCEPT ![r] =
                                                Append(@, got.raised[1])]
                              /\ rpc' = [rpc EXCEPT ![r] = "raised"]
                              /\ UNCHANGED <<rattempt, rcalls, rerrors, revents>>
                         ELSE LET adapter == AssignSystemPrompt(got.adapters[provider][id],
                                                                 messages, provider)
                                  failed  == FormatFailure(adapter.provider_name, messages)
                              IN  /\ adapters' = [got.adapters EXCEPT ![provider][id] = adapter]
                                  /\ revents' = [revents EXCEPT ![r] = @ \o PromptResolution]
                                  /\ IF FormatMessagesRaises(messages)
                                        THEN /\ rattempt' = [rattempt EXCEPT ![r] = failed.attempt]
                                             /\ rerrors' = [rerrors EXCEPT ![r] = @ \o failed.errors]
                                             /\ rraised' = [rraised EXCEPT ![r] =
                                                               Append(@, failed.raised)]
                                             /\ rpc' = [rpc EXCEPT ![r] = "raised"]
                                             /\ rcalls' = rcalls
                                        ELSE /\ rattempt' = [rattempt EXCEPT ![r] = "default"]
                                             /\ rcalls' = [rcalls EXCEPT ![r] =
                                                   Append(@, OpenAttempt(provider, "default",
                                                                         messages, adapter))]
                                             /\ rpc' = [rpc EXCEPT ![r] = "pulling"]
                                             /\ UNCHANGED <<rerrors, rraised>>
    /\ UNCHANGED <<static_vars, caller_vars, rchunks, rout>>

\* The first pull of stream_response for another request to a supported
\* provider, between two steps of the followed requests: it resolves the
\* adapter and assigns its system_prompt. The rest of that request's run
\* touches no state it shares with the followed requests, and once a
\* followed request has its adapter, neither does a request to another
\* provider, which is left out.
OtherRequest(provider, messages, ctor_ok) ==
    /\ provider \in Supported
    /\ \A r \in Reqs : rpc[r] = "idle" \/ rprovider[r] = provider
    /\ ctor_ok \in ConstructorOutcomes(provider)
    /\ LET got == GetProvider(provider, ctor_ok)
           id  == got.instances[provider]
       IN  /\ instances' = got.instances
           /\ adapters' =
                 IF got.raised # <<>>
                    THEN got.adapters
                    ELSE [got.adapters EXCEPT ![provider][id] =
                             AssignSystemPrompt(got.adapters[provider][id], messages, provider)]
    /\ UNCHANGED <<static_vars, caller_vars, request_vars>>

\* An exception inside the try of the adapter's stream_response: the adapter
\* re-raises, and try_with_models starts the fallback attempt or raises its
\* own error. (An adapter that returned instead would end the attempt,
\* try_with_models and stream_response normally.)
AttemptRaises(r, message) ==
    /\ rerrors' = [rerrors EXCEPT ![r] = Append(@, [attempt |-> rattempt[r],
                                                    message |-> message])]
    /\ IF ~AdapterReraises(rprovider[r])
          THEN /\ rpc' = [rpc EXCEPT ![r] = "done"]
               /\ UNCHANGED <<rattempt, rcalls, rraised>>
       ELSE IF AfterFailedAttempt(rattempt[r]) = "raise"
          THEN /\ rraised' = [rraised EXCEPT ![r] =
                    Append(@, BothFailedError(adapters[rprovider[r]][instances[rprovider[r]]].provider_name,
                                              rerrors[r][1].message, message))]
               /\ rpc' = [rpc EXCEPT ![r] = "raised"]
               /\ UNCHANGED <<rattempt, rcalls>>
          ELSE /\ rattempt' = [rattempt EXCEPT ![r] = AfterFailedAttempt(rattempt[r])]
               /\ rcalls' = [rcalls EXCEPT ![r] =
                    Append(@, OpenAttempt(rprovider[r], AfterFailedAttempt(rattempt[r]),
                                          rmessages[r],
                                          adapters[rprovider[r]][instances[rprovider[r]]]))]
               /\ UNCHANGED <<rpc, rraised>>

\* The vendor call or the vendor stream raises.
VendorError(r, message) ==
    /\ rpc[r] = "pulling"
    /\ AttemptRaises(r, message)
    /\ UNCHANGED <<factory_vars, caller_vars, rprovider, rmessages, rmessage_id, rchunks,
                   rout, revents>>

\* The vendor stream delivers a chunk; the frame the adapter yields for it,
\* if any, goes through try_with_models and stream_response to the consumer.
VendorChunk(r, kind) ==
    /\ rpc[r] = "pulling"
    /\ TotalChunks < MaxChunks
    /\ kind \in VendorChunkKinds(rprovider[r])
    /\ LET chunk  == VendorChunkOfKind(kind, Len(rchunks[r]) + 1)
           frames == ChunkFrames(rprovider[r], rmessage_id[r], chunk, Last(rcalls[r]).model)
       IN  /\ rchunks' = [rchunks EXCEPT ![r] =
                             Append(@, [attempt |-> rattempt[r], chunk |-> chunk])]
           /\ IF ChunkRaises(rprovider[r], chunk)
                 THEN /\ AttemptRaises(r, ChunkFieldError(rprovider[r]))
                      /\ rout' = rout
                 ELSE /\ rout' = [rout EXCEPT ![r] = @ \o frames]
                      /\ rpc' = [rpc EXCEPT ![r] = IF frames = <<>> THEN "pulling"
                                                                    ELSE "yielded"]
                      /\ UNCHANGED <<rattempt, rcalls, rerrors, rraised>>
    /\ UNCHANGED <<factory_vars, caller_vars, rprovider, rmessages, rmessage_id, revents>>

\* The vendor stream is exhausted: the adapter yields the sentinel.
VendorEnd(r) ==
    /\ rpc[r] = "pulling"
    /\ rout' = [rout EXCEPT ![r] = @ \o StreamEndFrames]
    /\ rpc' = [rpc EXCEPT ![r] = IF StreamEndFrames = <<>> THEN "done" ELSE "yielded"]
    /\ UNCHANGED <<factory_vars, caller_vars, rprovider, rmessages, rmessage_id, rattempt,
                   rcalls, rchunks, rerrors, rraised, revents>>

\* A log_conversation_entry without its try: a failure of the write raises.
log_conversation_entry_unguarded(write_ok) ==
    [event  |-> IF write_ok THEN "log_conversation_entry" ELSE "log_conversation_entry failed",
     raised |-> IF write_ok THEN <<>> ELSE <<[kind |-> "exception", message |-> "log write"]>>]

\* log_conversation_entry with conversation logging enabled: the entry is
\* written, or the failure is logged to the application log; it returns.
log_conversation_entry(write_ok) ==
    [event  |-> IF write_ok THEN "log_conversation_entry" ELSE "log_conversation_entry failed",
     raised |-> <<>>]

\* A stream_response that takes every chunk for the sentinel.
AnyChunkIsDone(chunk) == chunk # <<>>

\* stream_response: chunk == SSEFormat.DONE_MESSAGE
ChunkIsDone(chunk) == chunk = DONE_MESSAGE

\* Whether the write of the conversation log succeeds, for the pulls that
\* reach it.
LogOutcomes(r) == IF ChunkIsDone(Last(rout[r])) THEN BOOLEAN ELSE {TRUE}

\* Generators that stay suspended at the yield of a content frame when they
\* are resumed.
NeverResumes(done) == IF done THEN "done" ELSE "yielded"

\* Where the run is once stream_response is resumed after a yield: past its
\* return when the frame was the sentinel, else back in the loops of
\* try_with_models and the adapter, at the await on the vendor stream.
AfterYield(done) == IF done THEN "done" ELSE "pulling"

\* The consumer asks for the next frame: if the frame stream_response had
\* yielded is the sentinel it logs the conversation and returns, else the
\* adapter awaits the vendor.
ConsumerPull(r, write_ok) ==
    /\ rpc[r] = "yielded"
    /\ write_ok \in LogOutcomes(r)
    /\ IF ChunkIsDone(Last(rout[r]))
          THEN LET logged == log_conversation_entry(write_ok)
               IN  /\ revents' = [revents EXCEPT ![r] = Append(@, logged.event)]
                   /\ rraised' = [rraised EXCEPT ![r] = @ \o logged.raised]
                   /\ rpc' = [rpc EXCEPT ![r] = IF logged.raised = <<>> THEN AfterYield(TRUE)
                                                                        ELSE "raised"]
          ELSE /\ rpc' = [rpc EXCEPT ![r] = AfterYield(FALSE)]
               /\ UNCHANGED <<revents, rraised>>
    /\ UNCHANGED <<factory_vars, caller_vars, rprovider, rmessages, rmessage_id, rattempt,
                   rcalls, rchunks, rerrors, rout>>

\* Leaving the adapter's stream_response by an exception that is not an
\* Exception (GeneratorExit, CancelledError) closes the vendor stream: only
\* the Anthropic adapter holds it in an async with.
ClosesStreamOnExit(provider) == provider = "claude"

\* The vendor stream of the request's current attempt when its consumer
\* goes away: "none" while the vendor call has delivered nothing yet,
\* "exhausted" once the loop over it has ended, else "closed" or still
\* "open" after the generators were unwound.
StreamAfterCancel(r) ==
    IF rpc[r] = "yielded" /\ ChunkIsDone(Last(rout[r]))
       THEN (IF ClosesStreamOnExit(rprovider[r]) THEN "closed" ELSE "exhausted")
    ELSE IF \A i \in DOMAIN rchunks[r] : rchunks[r][i].attempt # rattempt[r]
       THEN "none"
    ELSE IF ClosesStreamOnExit(rprovider[r]) THEN "closed"
    ELSE "open"

\* What unwinds the generators: CancelledError is raised at the await the
\* task is suspended on, GeneratorExit at the yield of a closed generator.
CancelSignal(at) == IF at = "pulling" THEN "CancelledError" ELSE "GeneratorExit"

\* Handlers written as a bare except.
CaughtByBareExcept(exc) == TRUE

\* 'except Exception' of the adapters, of try_with_models and of
\* stream_response: CancelledError and GeneratorExit derive from
\* BaseException only.
CaughtByExceptException(exc) == exc \notin {"CancelledError", "GeneratorExit"}

\* The caller disconnects or the task that consumes stream_response is
\* cancelled: the generators are unwound with GeneratorExit or
\* CancelledError, which no 'except Exception' catches, so there is no
\* fallback attempt, no error object and no log entry. (A handler that
\* caught the signal would treat it as the failure of the attempt.)
Cancel(r) ==
    /\ rpc[r] \in {"pulling", "yielded"}
    /\ IF CaughtByExceptException(CancelSignal(rpc[r]))
          THEN /\ AttemptRaises(r, CancelSignal(rpc[r]))
               /\ rcancel' = rcancel
          ELSE /\ rpc' = [rpc EXCEPT ![r] = "cancelled"]
               /\ rcancel' = [rcancel EXCEPT ![r] = [cancelled |-> TRUE,
                                                     at        |-> rpc[r],
                                                     stream    |-> StreamAfterCancel(r)]]
               /\ UNCHANGED <<rattempt, rcalls, rerrors, rraised>>
    /\ UNCHANGED <<api_key, applied, health, chat, instances, adapters, caller_vars,
                   rprovider, rmessages, rmessage_id, rchunks, rout, revents>>

\* The process after aiproviders.py was imported: initialize_all_providers
\* has run once, every supported provider has its API key
\* (configuration.validate_api_keys), and each constructor returned or raised.
Init ==
    /\ api_key = [p \in VALID_PROVIDERS |-> TRUE]
    /\ \E built \in SUBSET Supported :
          /\ instances = [p \in ProviderNames |-> IF p \in built THEN 1 ELSE NoInstance]
          /\ adapters = [p \in ProviderNames |->
                            IF p \in built THEN <<NewAdapter(p)>> ELSE <<>>]
    /\ CallersIdle
    /\ RequestsIdle

Next ==
    \/ \E r \in Reqs, provider \in ProviderNames, messages \in RequestConversations,
          ms \in EpochMs, ctor_ok \in BOOLEAN :
            StartRequest(r, provider, messages, ms, ctor_ok)
    \/ \E provider \in Supported, messages \in RequestConversations, ctor_ok \in BOOLEAN :
            OtherRequest(provider, messages, ctor_ok)
    \/ \E r \in Reqs, kind \in ChunkKinds : VendorChunk(r, kind)
    \/ \E r \in Reqs : VendorEnd(r)
    \/ \E r \in Reqs, message \in ErrorMessages : VendorError(r, message)
    \/ \E r \in Reqs, write_ok \in BOOLEAN : ConsumerPull(r, write_ok)
    \/ \E r \in Reqs : Cancel(r)

Spec == Init /\ [][Next]_vars

\* try_with_models takes any object with the attributes it reads: beside the
\* conversations the endpoint validates, one whose user message carries no
\* content attribute.
NoContentConversation == <<Message("system", TextTerse), [role |-> "user"]>>

UnvalidatedConversations == RequestConversations \cup {NoContentConversation}

NextUnvalidated ==
    \/ \E r \in Reqs, provider \in ProviderNames, messages \in UnvalidatedConversations,
          ms \in EpochMs, ctor_ok \in BOOLEAN :
            StartRequest(r, provider, messages, ms, ctor_ok)
    \/ \E provider \in Supported, messages \in RequestConversations, ctor_ok \in BOOLEAN :
            OtherRequest(provider, messages, ctor_ok)
    \/ \E r \in Reqs, kind \in ChunkKinds : VendorChunk(r, kind)
    \/ \E r \in Reqs : VendorEnd(r)
    \/ \E r \in Reqs, message \in ErrorMessages : VendorError(r, message)
    \/ \E r \in Reqs, write_ok \in BOOLEAN : ConsumerPull(r, write_ok)
    \/ \E r \in Reqs : Cancel(r)

SpecUnvalidated == Init /\ [][NextUnvalidated]_vars

\* The runs in which the consumer keeps pulling and the vendor keeps
\* answering: no cancellation, and every step of the vendor stream (a chunk,
\* its end or an error) and of the consumer that stays possible is taken.
\* A vendor stream delivers at most MaxChunks chunks before it ends or fails.
\* The requests go to the OpenAI and Anthropic adapters, which between them
\* skip a chunk, frame a chunk and raise on a chunk (the Gemini adapter runs
\* through try_with_models like the OpenAI adapter), and to the names
\* stream_response rejects.
LiveProviders == ProviderNames \ {"gemini"}

NextLive ==
    \/ \E r \in Reqs, provider \in LiveProviders, messages \in RequestConversations,
          ms \in EpochMs, ctor_ok \in BOOLEAN :
            StartRequest(r, provider, messages, ms, ctor_ok)
    \/ \E r \in Reqs, kind \in ChunkKinds : VendorChunk(r, kind)
    \/ \E r \in Reqs : VendorEnd(r)
    \/ \E r \in Reqs, message \in ErrorMessages : VendorError(r, message)
    \/ \E r \in Reqs, write_ok \in BOOLEAN : ConsumerPull(r, write_ok)

VendorStep(r) ==
    \/ \E kind \in ChunkKinds : VendorChunk(r, kind)
    \/ VendorEnd(r)
    \/ \E message \in ErrorMessages : VendorError(r, message)

LiveFairness ==
    \A r \in Reqs :
        /\ WF_vars(VendorStep(r))
        /\ WF_vars(\E write_ok \in BOOLEAN : ConsumerPull(r, write_ok))

SpecLive == Init /\ [][NextLive]_vars /\ LiveFairness

\* ------------------------------------------------------------------------
\* aiproviders.py: health_check_provider
\* ------------------------------------------------------------------------

\* time.time() - start_time, in seconds.
HealthDurations == {0, 2}

\* What an adapter's health_check returns: the stripped text of the reply.
HealthReplies == {<<"4">>, <<>>, <<"I", " ", "c", "a", "n", "n", "o", "t">>}

\* str(e): the detail of an HTTPException after its status code, the
\* message of any other exception.
ExceptionText(e) ==
    IF e.kind = "error" THEN <<ToString(e.status_code), ": ">> \o e.detail
                        ELSE <<e.message>>

\* ', '.join(SUPPORTED_PROVIDERS)
SupportedList == Join([i \in DOMAIN SUPPORTED_PROVIDERS |-> <<SUPPORTED_PROVIDERS[i]>>], <<", ">>)

\* The triple returned for a name outside SUPPORTED_PROVIDERS.
HealthInvalid ==
    [ok |-> FALSE, message |-> <<"Invalid provider. Supported: ">> \o SupportedList,
     elapsed |-> 0]

\* The triple returned when the adapter call returned.
HealthSuccess(content, duration) ==
    [ok |-> TRUE, message |-> <<"Model responding correctly">>, elapsed |-> duration]

\* The triple returned by the except branch.
HealthFailure(e, duration) ==
    [ok |-> FALSE, message |-> ExceptionText(e), elapsed |-> duration]

\* An except clause for HTTPException only.
CatchesHTTPException(e) == e.kind = "error"

\* except Exception as e: HTTPException and the vendors' errors are
\* subclasses of Exception.
CatchesException(e) == e.kind \in {"error", "exception"}

\* The call after e was raised inside its try block, duration seconds
\* after the clock was read.
HealthAfterRaise(provider, e, duration) ==
    IF CatchesException(e)
       THEN [pc |-> "returned", provider |-> provider, timed |-> TRUE, adapter |-> e,
             result |-> HealthFailure(e, duration)]
       ELSE [pc |-> "raised", provider |-> provider, timed |-> TRUE, adapter |-> e]

\* A health check that starts the timer before it tests the name.
HealthProviderAssumed(provider) == TRUE

\* health_check_provider: provider in SUPPORTED_PROVIDERS
HealthProviderSupported(provider) == provider \in Supported

NoReply == [kind |-> "none"]

\* test_message of health_check_provider.
HealthTestMessage == <<"What is 2+2? Reply with just the number.">>

\* The system instruction every adapter's health_check writes into its call.
CalculatorPrompt == <<"You are a calculator. Answer math questions with just the number, no explanation.">>

\* The vendor call of an adapter's health_check: the model it is given, the
\* literal instruction and the test message; nothing is read from the
\* adapter but its client.
HealthProbe(provider, test_message) ==
    [model   |-> PROVIDER_SETTINGS[provider].default_model,
     system  |-> CalculatorPrompt,
     message |-> test_message]

\* A health_check that installs its instruction on the adapter.
HealthCheckAssignsPrompt(adapter) == [adapter EXCEPT !.system_prompt = CalculatorPrompt]

\* The adapter after its health_check ran up to the vendor call: no
\* attribute of self is assigned.
HealthCheckLeaves(adapter) == adapter

\* health_check_provider(provider) up to its await, or to its return when
\* the name is not supported or get_provider raises.
HealthCheckCall(provider, ctor_ok, duration) ==
    /\ health.pc = "idle"
    /\ ctor_ok \in ConstructorOutcomes(provider)
    /\ IF ~HealthProviderSupported(provider)
          THEN /\ duration = 0
               /\ health' = [pc |-> "returned", provider |-> provider, timed |-> FALSE,
                             adapter |-> NoReply, result |-> HealthInvalid]
               /\ UNCHANGED <<instances, adapters>>
          ELSE LET got == GetProvider(provider, ctor_ok)
               IN  /\ instances' = got.instances
                   /\ IF got.raised # <<>>
                         THEN /\ adapters' = got.adapters
                              /\ health' = HealthAfterRaise(provider, got.raised[1], duration)
                         ELSE /\ duration = 0
                              /\ adapters' = [got.adapters EXCEPT
                                                ![provider][got.instances[provider]] =
                                                    HealthCheckLeaves(@)]
                              /\ health' = [pc |-> "awaiting", provider |-> provider,
                                            timed |-> TRUE, adapter |-> NoReply,
                                            probe |-> HealthProbe(provider, HealthTestMessage)]
    /\ UNCHANGED <<api_key, rcancel, chat, applied, caller_vars, request_vars>>

\* The adapter's health_check returns the text of the vendor's reply.
HealthAdapterReturns(content, duration) ==
    /\ health.pc = "awaiting"
    /\ health' = [health EXCEPT !.pc = "returned",
                                !.adapter = [kind |-> "reply", content |-> content]]
                  @@ [result |-> HealthSuccess(content, duration)]
    /\ UNCHANGED <<api_key, rcancel, chat, applied, instances, adapters, caller_vars, request_vars>>

\* The adapter's health_check raises.
HealthAdapterRaises(message, duration) ==
    /\ health.pc = "awaiting"
    /\ health' = HealthAfterRaise(health.provider,
                                  [kind |-> "exception", message |-> message], duration)
    /\ UNCHANGED <<api_key, rcancel, chat, applied, instances, adapters, caller_vars, request_vars>>

NextHealth ==
    \/ \E provider \in ProviderNames, ctor_ok \in BOOLEAN, duration \in HealthDurations :
          HealthCheckCall(provider, ctor_ok, duration)
    \/ \E content \in HealthReplies, duration \in HealthDurations :
          HealthAdapterReturns(content, duration)
    \/ \E message \in ErrorMessages, duration \in HealthDurations :
          HealthAdapterRaises(message, duration)

\* Starts where Spec starts: after aiproviders.py was imported.
SpecHealth == Init /\ [][NextHealth]_vars

\* A health check of a provider next to a chat request to that provider,
\* their steps interleaved at the awaits.
NextHealthChat ==
    \/ \E provider \in {"gpt", "claude"}, ctor_ok \in BOOLEAN, duration \in HealthDurations :
          HealthCheckCall(provider, ctor_ok, duration)
    \/ \E content \in HealthReplies, duration \in HealthDurations :
          HealthAdapterReturns(content, duration)
    \/ \E message \in ErrorMessages, duration \in HealthDurations :
          HealthAdapterRaises(message, duration)
    \/ \E r \in Reqs, provider \in {"gpt", "claude"}, messages \in RequestConversations,
          ctor_ok \in BOOLEAN :
            StartRequest(r, provider, messages, 1740700800, ctor_ok)
    \/ \E r \in Reqs, kind \in ChunkKinds : VendorChunk(r, kind)
    \/ \E r \in Reqs : VendorEnd(r)
    \/ \E r \in Reqs, message \in ErrorMessages : VendorError(r, message)
    \/ \E r \in Reqs, write_ok \in BOOLEAN : ConsumerPull(r, write_ok)

SpecHealthChat == Init /\ [][NextHealthChat]_vars

\* ------------------------------------------------------------------------
\* Claims about health_check_provider (checked under SpecHealth)
\* ------------------------------------------------------------------------

\* C16: health_check_provider never raises: a call for a supported provider
\* that ends has returned a triple; when get_provider or the adapter's
\* health_check raised, the triple is (false, the text of that exception,
\* the elapsed time).
C16_HealthCheckNeverRaises ==
    /\ health.pc \in {"idle", "awaiting", "returned"}
    /\ (health.pc = "returned" /\ health.provider \in Supported) =>
          /\ DOMAIN health.result = {"ok", "message", "elapsed"}
          /\ health.result.ok \in BOOLEAN
          /\ health.result.elapsed \in HealthDurations
          /\ health.adapter.kind = "error" =>
                /\ ~health.result.ok
                /\ health.result.message
                      = <<ToString(health.adapter.status_code), ": ">> \o health.adapter.detail
          /\ health.adapter.kind = "exception" =>
                /\ ~health.result.ok
                /\ health.result.message = <<health.adapter.message>>

\* C16 witness: the adapter's health_check raised and the call returned
\* (false, "timeout", 2).
C16_Witness ==
    /\ health.pc = "returned"
    /\ health.adapter = [kind |-> "exception", message |-> "timeout"]
    /\ health.result = [ok |-> FALSE, message |-> <<"timeout">>, elapsed |-> 2]

\* C17: ok = true is reported only when the adapter's reply is usable: a
\* call whose adapter returned an empty text is not reported as ok.
C17_OkOnlyForSaneReply ==
    (health.pc = "returned" /\ health.result.ok) =>
        /\ health.adapter.kind = "reply"
        /\ health.adapter.content # <<>>

\* C18: for a name outside the supported set the call returns ok = false,
\* elapsed 0 and the invalid-provider message, without reading the clock,
\* without an adapter call, and its step leaves the registry as it was.
C18_InvalidProviderBeforeTimer ==
    /\ []((health.pc # "idle" /\ health.provider \notin Supported) =>
            /\ health.pc = "returned"
            /\ ~health.result.ok
            /\ health.result.elapsed = 0
            /\ health.result.message[1] = "Invalid provider. Supported: "
            /\ ~health.timed
            /\ health.adapter = [kind |-> "none"]
            /\ adapters[health.provider] = <<>>
            /\ instances[health.provider] = NoInstance)
    /\ [][(health.pc = "idle" /\ health'.pc # "idle" /\ health'.provider \notin Supported)
            => UNCHANGED <<instances, adapters>>]_vars

\* C18 witness: a health check of groq, which the deployment does not
\* support, has returned while a supported adapter sits in the cache.
C18_Witness ==
    /\ health.pc = "returned"
    /\ health.provider = "groq"
    /\ health.result = HealthInvalid
    /\ instances["gpt"] # NoInstance

\* ------------------------------------------------------------------------
\* main.py: POST /chat/{provider}; supabase_client.py
\* ------------------------------------------------------------------------

\* A logging-store function without its try: a failure of the store raises.
SupabaseLogUnguarded(call, store_ok) ==
    [event  |-> <<call, IF store_ok THEN "stored" ELSE "failed">>,
     raised |-> IF store_ok THEN <<>> ELSE <<[kind |-> "exception", message |-> "store"]>>]

\* log_conversation_start, log_message and log_conversation_end: the row is
\* stored, or the failure is logged; the function returns either way.
SupabaseLog(call, store_ok) ==
    [event  |-> <<call, IF store_ok THEN "stored" ELSE "failed">>,
     raised |-> <<>>]

\* The parameters of aiproviders.stream_response.
stream_response_params == <<"request", "provider">>

\* The arguments wrapped_stream_response calls stream_response with.
wrapped_call_args == <<"request", "provider", "conversation_id">>

\* Python binds positional arguments to parameters without defaults.
CallBinds(args, params) == Len(args) = Len(params)

\* str() of the TypeError of a call that does not bind.
BindError == [kind    |-> "exception",
              message |-> "stream_response() takes 2 positional arguments but 3 were given"]

\* wrapped_stream_response: chunk.startswith("data: [DONE]")
StartsWithDone(chunk) ==
    LET marker == <<"d", "a", "t", "a", ":", " ", "[", "D", "O", "N", "E", "]">>
    IN  Len(chunk) >= Len(marker) /\ SubSeq(chunk, 1, Len(marker)) = marker

\* Whether the conversation has a user message (the last one is logged).
HasUserMessage(messages) == \E i \in DOMAIN messages : messages[i].role = "user"

\* The response of chat for an exception inside its try.
ChatError(provider, e) ==
    [status |-> 500, detail |-> <<"Chat error with ", provider, ": ">> \o ExceptionText(e)]

\* chat(provider, request, client_request) from its first line to the
\* return of the StreamingResponse, or to the HTTPException it raises; the
\* logging-store calls it awaits do not suspend. The request body has been
\* validated as a ChatRequest.
ChatCall(provider, messages, start_ok, user_ok) ==
    /\ chat.pc = "idle"
    /\ provider \notin Supported => start_ok /\ user_ok
    /\ ~HasUserMessage(messages) => user_ok
    /\ LET start  == SupabaseLog("log_conversation_start", start_ok)
           user   == SupabaseLog("log_message user", user_ok)
           answer(pc, status, detail, store) ==
               [pc |-> pc, provider |-> provider, messages |-> messages,
                status |-> status, detail |-> detail, store |-> store,
                frames |-> <<>>, error |-> <<>>]
       IN  chat' =
             IF provider \notin Supported
                THEN answer("responded", 400,
                            <<"Invalid provider. Supported providers are: ">> \o SupportedList,
                            <<>>)
             ELSE IF messages = <<>>
                THEN answer("responded", 422, <<"No messages provided in request">>, <<>>)
             ELSE IF start.raised # <<>>
                THEN answer("responded", ChatError(provider, start.raised[1]).status,
                            ChatError(provider, start.raised[1]).detail, <<start.event>>)
             ELSE IF ~HasUserMessage(messages)
                THEN answer("streaming", 200, <<>>, <<start.event>>)
             ELSE IF user.raised # <<>>
                THEN answer("responded", ChatError(provider, user.raised[1]).status,
                            ChatError(provider, user.raised[1]).detail,
                            <<start.event, user.event>>)
             ELSE answer("streaming", 200, <<>>, <<start.event, user.event>>)
    /\ UNCHANGED <<api_key, applied, health, rcancel, instances, adapters, caller_vars,
                   request_vars>>

\* The StreamingResponse has sent status 200 and its headers and asks
\* wrapped_stream_response for the first frame: the generator's first
\* statement after response_content = "" is the call of stream_response,
\* which does not bind, so the TypeError leaves the generator and the
\* response is broken off; the statements after the loop are not reached.
ChatBody ==
    /\ chat.pc = "streaming"
    /\ chat' = IF CallBinds(wrapped_call_args, stream_response_params)
                  THEN [chat EXCEPT !.pc = "iterating"]
                  ELSE [chat EXCEPT !.pc = "aborted", !.error = <<BindError>>]
    /\ UNCHANGED <<api_key, applied, health, rcancel, instances, adapters, caller_vars,
                   request_vars>>

\* The endpoint, next to a consumer that iterates
\* aiproviders.stream_response(request, provider) as it is declared.
NextChat ==
    \/ \E provider \in ProviderNames, messages \in RequestConversations,
          start_ok \in BOOLEAN, user_ok \in BOOLEAN :
            ChatCall(provider, messages, start_ok, user_ok)
    \/ ChatBody
    \/ \E r \in Reqs, provider \in {"gpt", "claude"}, ctor_ok \in BOOLEAN :
            StartRequest(r, provider,
                         <<Message("system", TextTerse), Message("user", TextHi)>>,
                         1740700800, ctor_ok)
    \/ \E r \in Reqs, kind \in ChunkKinds : VendorChunk(r, kind)
    \/ \E r \in Reqs : VendorEnd(r)
    \/ \E r \in Reqs, message \in ErrorMessages : VendorError(r, message)
    \/ \E r \in Reqs, write_ok \in BOOLEAN : ConsumerPull(r, write_ok)
    \/ \E r \in Reqs : Cancel(r)

SpecChat == Init /\ [][NextChat]_vars

\* ------------------------------------------------------------------------
\* The functions without side effects, applied to arguments
\* ------------------------------------------------------------------------

\* The longest conversation given to get_system_prompt.
MaxPromptMessages == 3

\* Message contents: empty, blank, blanks and a period, and two with
\* substance (one of them ending with a period).
PromptContents == {<<>>, <<" ">>, <<" ", ".", " ">>, <<"B", "e">>, <<"a", ".">>}

PromptMessages ==
    {Message(role, content) : role \in {"system", "user"}, content \in PromptContents}

PromptConversations ==
    UNION {[1..n -> PromptMessages] : n \in 0..MaxPromptMessages}

\* The provider argument: a name, or "None" when it is not given.
ProviderArguments == ProviderNames \cup {"None"}

\* The characters of the pieces the framing functions put together.
Chars(piece) ==
    CASE piece = "data: "  -> <<"d", "a", "t", "a", ":", " ">>
      [] piece = "\n\n"    -> <<"\n", "\n">>
      [] piece = "[DONE]"  -> <<"[", "D", "O", "N", "E", "]">>
      [] piece = ": "      -> <<":", " ">>
      [] piece = ", "      -> <<",", " ">>
      [] piece = "id"      -> <<"i", "d">>
      [] piece = "delta"   -> <<"d", "e", "l", "t", "a">>
      [] piece = "content" -> <<"c", "o", "n", "t", "e", "n", "t">>
      [] piece = "model"   -> <<"m", "o", "d", "e", "l">>
      [] piece = "\\\""    -> <<"\\", "\"">>
      [] piece = "\\\\"    -> <<"\\", "\\">>
      [] piece = "\\n"     -> <<"\\", "n">>
      [] piece = "\\t"     -> <<"\\", "t">>
      [] OTHER             -> <<piece>>

\* A str the code builds, character by character.
RECURSIVE Flatten(_)
Flatten(pieces) ==
    IF pieces = <<>> THEN <<>> ELSE Chars(Head(pieces)) \o Flatten(Tail(pieces))

\* json.loads, for documents made of objects and strings.
ParseFailed == [ok |-> FALSE, kind |-> "none", value |-> <<>>, next |-> 0]

JsonWhitespace == {" ", "\n", "\t"}

RECURSIVE SkipWhitespace(_, _)
SkipWhitespace(s, i) ==
    IF i <= Len(s) /\ s[i] \in JsonWhitespace THEN SkipWhitespace(s, i + 1) ELSE i

\* The character an escape sequence stands for.
JsonUnescape(c) ==
    CASE c = "\"" -> "\""
      [] c = "\\" -> "\\"
      [] c = "/"  -> "/"
      [] c = "n"  -> "\n"
      [] c = "t"  -> "\t"

\* The rest of a string whose opening quotation mark has been read.
RECURSIVE ParseString(_, _, _)
ParseString(s, i, acc) ==
    IF i > Len(s) THEN ParseFailed
    ELSE IF s[i] = "\"" THEN [ok |-> TRUE, kind |-> "str", value |-> acc, next |-> i + 1]
    ELSE IF s[i] = "\\"
       THEN IF i + 1 <= Len(s) /\ s[i + 1] \in {"\"", "\\", "/", "n", "t"}
               THEN ParseString(s, i + 2, Append(acc, JsonUnescape(s[i + 1])))
               ELSE ParseFailed
    ELSE IF s[i] \in {"\n", "\t"} THEN ParseFailed
    ELSE ParseString(s, i + 1, Append(acc, s[i]))

RECURSIVE ParseValue(_, _)
RECURSIVE ParseMembers(_, _, _)
\* The members of an object whose opening brace has been read.
ParseMembers(s, i, acc) ==
    LET k == SkipWhitespace(s, i) IN
    IF k > Len(s) \/ s[k] # "\"" THEN ParseFailed
    ELSE LET key == ParseString(s, k + 1, <<>>)
             c   == SkipWhitespace(s, key.next)
         IN  IF ~key.ok \/ c > Len(s) \/ s[c] # ":" THEN ParseFailed
             ELSE LET val  == ParseValue(s, c + 1)
                      e    == SkipWhitespace(s, val.next)
                      more == Append(acc, [key |-> key.value, kind |-> val.kind,
                                           value |-> val.value])
                  IN  IF ~val.ok \/ e > Len(s) THEN ParseFailed
                      ELSE IF s[e] = "," THEN ParseMembers(s, e + 1, more)
                      ELSE IF s[e] = "}"
                         THEN [ok |-> TRUE, kind |-> "obj", value |-> more, next |-> e + 1]
                      ELSE ParseFailed

ParseValue(s, i) ==
    LET k == SkipWhitespace(s, i) IN
    IF k > Len(s) THEN ParseFailed
    ELSE IF s[k] = "\"" THEN ParseString(s, k + 1, <<>>)
    ELSE IF s[k] = "{" THEN ParseMembers(s, k + 1, <<>>)
    ELSE ParseFailed

\* json.loads(json_str): one value and nothing but whitespace after it.
JsonLoads(s) ==
    LET parsed == ParseValue(s, 1) IN
    IF parsed.ok /\ SkipWhitespace(s, parsed.next) = Len(s) + 1 THEN parsed ELSE ParseFailed

\* The longest content given to format_stream_chunk.
MaxContentLen == 2

\* Characters of a content: those json.dumps escapes, those its output is
\* made of, and plain ones.
ContentChars == {"\"", "\\", "\n", "n", "{", ":", "a"}

\* Vendor text that spells the sentinel: its marker, and the whole of it.
SentinelContents ==
    { <<"[", "D", "O", "N", "E", "]">>,
      <<"d", "a", "t", "a", ":", " ", "[", "D", "O", "N", "E", "]", "\n", "\n">> }

FrameContents == UNION {[1..n -> ContentChars] : n \in 0..MaxContentLen} \cup SentinelContents

FrameMessageIds == {<<"g", "p", "t", "-", "1">>, <<"\"", "}">>}

FrameModels == {<<"m">>, <<"\\", "\"">>}

Apply_format_stream_chunk ==
    /\ applied = NotApplied
    /\ \E message_id \in FrameMessageIds, content \in FrameContents, model \in FrameModels :
          applied' = [fn         |-> "format_stream_chunk",
                      message_id |-> message_id,
                      content    |-> content,
                      model      |-> model,
                      result     |-> Flatten(format_stream_chunk(message_id, content, model))]
    /\ UNCHANGED <<api_key, rcancel, chat, health, instances, adapters, caller_vars, request_vars>>

Apply_format_done_message ==
    /\ applied = NotApplied
    /\ applied' = [fn |-> "format_done_message", result |-> Flatten(format_done_message)]
    /\ UNCHANGED <<api_key, rcancel, chat, health, instances, adapters, caller_vars, request_vars>>

\* models.py: ConversationMessage and ChatRequest validation

MAX_MESSAGE_LENGTH == 24000

MAX_MESSAGES_IN_CONTEXT == 50

MIN_MESSAGE_LENGTH == 1

\* MessageRole
MessageRoles == {"user", "assistant", "system"}

\* A validator returns the value or raises ValueError(message).
Accepted(v) == [ok |-> TRUE, value |-> v]

Rejected(message) == [ok |-> FALSE, errors |-> <<message>>]

\* A content validator that does not trim before it tests for emptiness.
validate_content_untrimmed(v) ==
    IF v = <<>> THEN Rejected(<<"Message content cannot be empty">>)
    ELSE IF Len(v) > MAX_MESSAGE_LENGTH
       THEN Rejected(<<"Message exceeds maximum length of ", ToString(MAX_MESSAGE_LENGTH),
                       " characters">>)
    ELSE Accepted(v)

\* ConversationMessage.validate_content_length
validate_content_length(v) ==
    IF Strip(v) = <<>> THEN Rejected(<<"Message content cannot be empty">>)
    ELSE IF Len(Strip(v)) < MIN_MESSAGE_LENGTH
       THEN Rejected(<<"Message content must be at least ", ToString(MIN_MESSAGE_LENGTH),
                       " characters">>)
    ELSE IF Len(v) > MAX_MESSAGE_LENGTH
       THEN Rejected(<<"Message exceeds maximum length of ", ToString(MAX_MESSAGE_LENGTH),
                       " characters">>)
    ELSE Accepted(v)

\* ConversationMessage(role=..., content=...): the role must be a
\* MessageRole, the content must pass validate_content_length; the errors
\* of both fields are reported together.
ConversationMessage(role, content) ==
    LET role_errors    == IF role \in MessageRoles THEN <<>>
                          ELSE <<(<<"Input should be 'user', 'assistant' or 'system'">>)>>
        checked        == validate_content_length(content)
        content_errors == IF checked.ok THEN <<>> ELSE checked.errors
    IN  IF role_errors \o content_errors = <<>>
           THEN Accepted(Message(role, content))
           ELSE [ok |-> FALSE, errors |-> role_errors \o content_errors]

\* A ChatRequest without the count validator.
messages_count_unchecked(v) == Accepted(v)

\* ChatRequest.validate_messages_count
validate_messages_count(v) ==
    IF Len(v) > MAX_MESSAGES_IN_CONTEXT
       THEN Rejected(<<"Conversation exceeds maximum of ", ToString(MAX_MESSAGES_IN_CONTEXT),
                       " messages">>)
       ELSE Accepted(v)

\* The errors of the items of a list of messages, in order.
RECURSIVE ItemErrors(_)
ItemErrors(items) ==
    IF items = <<>> THEN <<>>
    ELSE LET first == ConversationMessage(Head(items).role, Head(items).content)
         IN  (IF first.ok THEN <<>> ELSE first.errors) \o ItemErrors(Tail(items))

\* ChatRequest(messages=...): every item is validated, then min_length=1,
\* then validate_messages_count (a validator that runs after the field's
\* own validation succeeded).
ChatRequest(messages) ==
    IF ItemErrors(messages) # <<>>
       THEN [ok |-> FALSE, errors |-> ItemErrors(messages)]
    ELSE IF Len(messages) < 1
       THEN Rejected(<<"List should have at least 1 item after validation, not 0">>)
    ELSE validate_messages_count(messages)

\* The longest list given to ChatRequest.
MaxConversationLen == 52

\* Lists of n messages; all valid, or with an empty content in the last.
RequestLists ==
    {[i \in 1..n |-> IF i = n /\ bad THEN Message("user", <<>>) ELSE Message("user", TextHi)] :
        n \in 0..MaxConversationLen, bad \in BOOLEAN}

\* The longest of the short contents given to ConversationMessage.
MaxShortContentLen == 3

\* By how much the long contents exceed MAX_MESSAGE_LENGTH.
MaxContentExcess == 2

Repeat(c, n) == [i \in 1..n |-> c]

\* Contents: the short ones over a blank, a newline and a letter, and long
\* ones around MAX_MESSAGE_LENGTH, with and without a blank at an end.
MessageContents ==
    UNION {[1..n -> {" ", "\n", "a"}] : n \in 0..MaxShortContentLen}
    \cup {Repeat("a", n) :
            n \in (MAX_MESSAGE_LENGTH - 1)..(MAX_MESSAGE_LENGTH + MaxContentExcess)}
    \cup {<<" ">> \o Repeat("a", MAX_MESSAGE_LENGTH), Repeat("a", MAX_MESSAGE_LENGTH) \o <<" ">>,
          <<" ">> \o Repeat("a", MAX_MESSAGE_LENGTH - 1)}

Apply_ConversationMessage ==
    /\ applied = NotApplied
    /\ \E role \in MessageRoles \cup {"tool"}, content \in MessageContents :
          applied' = [fn |-> "ConversationMessage", role |-> role, content |-> content,
                      result |-> ConversationMessage(role, content)]
    /\ UNCHANGED <<api_key, rcancel, chat, health, instances, adapters, caller_vars, request_vars>>

Apply_ChatRequest ==
    /\ applied = NotApplied
    /\ \E messages \in RequestLists :
          applied' = [fn |-> "ChatRequest", messages |-> messages,
                      result |-> ChatRequest(messages)]
    /\ UNCHANGED <<api_key, rcancel, chat, health, instances, adapters, caller_vars, request_vars>>

Apply_get_system_prompt ==
    /\ applied = NotApplied
    /\ \E messages \in PromptConversations, provider \in ProviderArguments :
          applied' = [fn       |-> "get_system_prompt",
                      messages |-> messages,
                      provider |-> provider,
                      result   |-> get_system_prompt(messages, provider)]
    /\ UNCHANGED <<api_key, rcancel, chat, health, instances, adapters, caller_vars, request_vars>>

\* The vendor call of the default attempt for a conversation, by the adapter
\* of each provider class, after stream_response assigned the adapter's
\* system_prompt from the conversation.
Apply_OpenAttempt ==
    /\ applied = NotApplied
    /\ \E messages \in PromptConversations, provider \in VALID_PROVIDERS :
          applied' = [fn       |-> "OpenAttempt",
                      messages |-> messages,
                      provider |-> provider,
                      result   |-> OpenAttempt(provider, "default", messages,
                                      AssignSystemPrompt(NewAdapter(provider),
                                                         messages, provider))]
    /\ UNCHANGED <<api_key, rcancel, chat, health, instances, adapters, caller_vars, request_vars>>

InitFunctions ==
    /\ api_key = [p \in VALID_PROVIDERS |-> TRUE]
    /\ instances = [p \in ProviderNames |-> NoInstance]
    /\ adapters = [p \in ProviderNames |-> <<>>]
    /\ CallersIdle
    /\ RequestsIdle

NextFunctions ==
    \/ Apply_get_system_prompt
    \/ Apply_format_stream_chunk
    \/ Apply_format_done_message
    \/ Apply_ConversationMessage
    \/ Apply_ChatRequest
    \/ Apply_OpenAttempt

SpecFunctions == InitFunctions /\ [][NextFunctions]_vars

\* ------------------------------------------------------------------------
\* Claims about the functions (checked under SpecFunctions)
\* ------------------------------------------------------------------------

\* A content that is not empty once whitespace and periods are removed.
NonTrivialContent(content) ==
    \E i \in DOMAIN content : content[i] \notin {" ", "\t", "\n", "."}

\* The contents of the non-trivial system messages, in conversation order.
NonTrivialSystemContents(messages) ==
    SelectSeq(ContentsWithRole(messages, "system"), NonTrivialContent)

\* C13: for a conversation with a non-trivial system message,
\* get_system_prompt returns the raw contents of its non-trivial system
\* messages, in order, joined by one space, whatever the provider argument.
C13_NonTrivialSystemMessagesJoined ==
    applied.fn = "get_system_prompt" =>
        LET contents == NonTrivialSystemContents(applied.messages) IN
        contents # <<>> => applied.result = Join(contents, <<" ">>)

\* C13 witness: a trivial system message between two non-trivial ones; the
\* result is the two contents with one space between them.
C13_Witness ==
    /\ applied.fn = "get_system_prompt"
    /\ applied.messages = <<Message("system", <<"a", ".">>),
                            Message("system", <<" ", ".", " ">>),
                            Message("system", <<"B", "e">>)>>
    /\ applied.result = <<"a", ".", " ", "B", "e">>

\* C14: for a conversation without a non-trivial system message, the empty
\* conversation included, get_system_prompt returns the configured prompt
\* of the provider for gpt, claude, gemini and groq, and the generic prompt
\* for an unknown provider or when no provider is given.
C14_DefaultPromptOtherwise ==
    applied.fn = "get_system_prompt" =>
        (NonTrivialSystemContents(applied.messages) = <<>> =>
            applied.result =
                IF applied.provider \in {"gpt", "claude", "gemini", "groq"}
                   THEN PROVIDER_SETTINGS[applied.provider].system_prompt
                   ELSE GENERIC_SYSTEM_PROMPT)

\* C14 witness: only trivial system messages and the provider groq.
C14_Witness ==
    /\ applied.fn = "get_system_prompt"
    /\ applied.messages = <<Message("system", <<" ", ".", " ">>), Message("user", <<"B", "e">>)>>
    /\ applied.provider = "groq"
    /\ applied.result = GROQ_SYSTEM_PROMPT

IsNotSystem(m) == m.role # "system"

\* C21: the vendor payload of every adapter holds the non-system messages
\* of the conversation, each once and in conversation order, and no
\* system-role message among them; the OpenAI and Groq payloads start with
\* one system entry, the Anthropic and Gemini payloads have none (Gemini's
\* is the list of the contents).
C21_NonSystemMessagesKeptInOrder ==
    applied.fn = "OpenAttempt" =>
        LET payload == applied.result.messages
            kept    == SelectSeq(applied.messages, IsNotSystem)
        IN  CASE applied.provider \in {"gpt", "groq"} ->
                    /\ Len(payload) = Len(kept) + 1
                    /\ payload[1].role = "system"
                    /\ Tail(payload) = kept
              [] applied.provider = "claude" -> payload = kept
              [] applied.provider = "gemini" ->
                    payload = [i \in DOMAIN kept |-> kept[i].content]

\* C21 witness: a system message between two user messages, sent to groq.
C21_Witness ==
    /\ applied.fn = "OpenAttempt"
    /\ applied.provider = "groq"
    /\ applied.messages = <<Message("user", <<"a", ".">>),
                            Message("system", <<"B", "e">>),
                            Message("user", <<"B", "e">>)>>
    /\ applied.result.messages = <<Message("system", <<"B", "e">>),
                                   Message("user", <<"a", ".">>),
                                   Message("user", <<"B", "e">>)>>

\* C30: the system instruction of the vendor call equals
\* get_system_prompt(conversation, provider), for every conversation and
\* every provider.
C30_InstructionIsResolvedPrompt ==
    applied.fn = "OpenAttempt" =>
        (IF applied.provider \in {"gpt", "groq"}
            THEN applied.result.messages[1].content
            ELSE applied.result.system)
            = get_system_prompt(applied.messages, applied.provider)

\* The characters "data: " and "\n\n" of a frame.
FramePrefix == <<"d", "a", "t", "a", ":", " ">>

FrameSuffix == <<"\n", "\n">>

\* C37: whatever the content, the marker "[DONE]" and the whole sentinel
\* included, the frame format_stream_chunk returns is not the string
\* stream_response compares its chunks with ("data: [DONE]\n\n") and does
\* not start with the string the chat endpoint tests for ("data: [DONE]").
C37_ContentFrameIsNeverSentinel ==
    applied.fn = "format_stream_chunk" =>
        /\ applied.result # Flatten(DONE_MESSAGE)
        /\ applied.result # Flatten(format_done_message)
        /\ ~StartsWithDone(applied.result)

\* C37 witness: the content "[DONE]" has been framed.
C37_Witness ==
    /\ applied.fn = "format_stream_chunk"
    /\ applied.content = <<"[", "D", "O", "N", "E", "]">>
    /\ StartsWithDone(Flatten(format_done_message))

\* C15: format_stream_chunk returns a string that starts with "data: " and
\* ends with two newlines, and what lies between them JSON-decodes to the
\* object {id: message_id, delta: {content, model}}, for every message id,
\* content and model; format_done_message returns "data: [DONE]" followed
\* by two newlines.
C15_FrameRoundTrip ==
    /\ applied.fn = "format_stream_chunk" =>
          LET frame   == applied.result
              n       == Len(frame)
              decoded == JsonLoads(SubSeq(frame, 7, n - 2))
          IN  /\ n >= 8
              /\ SubSeq(frame, 1, 6) = FramePrefix
              /\ SubSeq(frame, n - 1, n) = FrameSuffix
              /\ decoded.ok
              /\ decoded.kind = "obj"
              /\ Len(decoded.value) = 2
              /\ decoded.value[1].key = <<"i", "d">>
              /\ decoded.value[1].kind = "str"
              /\ decoded.value[1].value = applied.message_id
              /\ decoded.value[2].key = <<"d", "e", "l", "t", "a">>
              /\ decoded.value[2].kind = "obj"
              /\ LET delta == decoded.value[2].value
                 IN  /\ Len(delta) = 2
                     /\ delta[1].key = <<"c", "o", "n", "t", "e", "n", "t">>
                     /\ delta[1].kind = "str"
                     /\ delta[1].value = applied.content
                     /\ delta[2].key = <<"m", "o", "d", "e", "l">>
                     /\ delta[2].kind = "str"
                     /\ delta[2].value = applied.model
    /\ applied.fn = "format_done_message" =>
          applied.result = <<"d", "a", "t", "a", ":", " ", "[", "D", "O", "N", "E", "]",
                             "\n", "\n">>

\* C15 witness: a content made of a backslash and the letter n, with a
\* message id and a model that hold quotation marks, has been framed.
C15_Witness ==
    /\ applied.fn = "format_stream_chunk"
    /\ applied.content = <<"\\", "n">>
    /\ applied.message_id = <<"\"", "}">>
    /\ applied.model = <<"\\", "\"">>
    /\ Len(applied.result) > 8

\* C19: a list of messages whose length is outside 1..MAX_MESSAGES_IN_CONTEXT
\* is rejected when the ChatRequest is built, which touches neither the
\* registry nor an adapter nor a stream; for MAX_MESSAGES_IN_CONTEXT + 1
\* messages the error cites "maximum of 50 messages"; a conversation within
\* the range is accepted.
C19_ConversationLengthChecked ==
    /\ [](applied.fn = "ChatRequest" =>
            LET n     == Len(applied.messages)
                valid == \A i \in 1..n : applied.messages[i].content # <<>>
            IN  /\ (n < 1 \/ n > 50) => ~applied.result.ok
                /\ (n = 51 /\ valid) =>
                      applied.result.errors
                          = <<(<<"Conversation exceeds maximum of ", "50", " messages">>)>>
                /\ (n \in 1..50 /\ valid) => applied.result.ok)
    /\ [][applied'.fn = "ChatRequest" => UNCHANGED <<instances, adapters, request_vars>>]_vars

\* C19 witness: a list of 51 valid messages has been rejected.
C19_Witness ==
    /\ applied.fn = "ChatRequest"
    /\ Len(applied.messages) = 51
    /\ \A i \in 1..51 : applied.messages[i].content # <<>>
    /\ ~applied.result.ok

\* C20: a ConversationMessage that passes validation has a content that is
\* not empty after trimming, with a trimmed length between
\* MIN_MESSAGE_LENGTH and MAX_MESSAGE_LENGTH; an empty or whitespace-only
\* content is rejected with "Message content cannot be empty", and a
\* content longer than MAX_MESSAGE_LENGTH is rejected.
C20_ValidatedContentInRange ==
    applied.fn = "ConversationMessage" =>
        LET content == applied.content
            blank   == \A i \in DOMAIN content : content[i] \in {" ", "\t", "\n"}
        IN  /\ applied.result.ok =>
                  /\ Strip(content) # <<>>
                  /\ Len(Strip(content)) >= 1
                  /\ Len(Strip(content)) <= 24000
            /\ blank =>
                  /\ ~applied.result.ok
                  /\ \E i \in DOMAIN applied.result.errors :
                        applied.result.errors[i] = <<"Message content cannot be empty">>
            /\ Len(content) > 24000 => ~applied.result.ok

\* C20 witness: a content with a blank before a letter has passed; its
\* trimmed length is 1.
C20_Witness ==
    /\ applied.fn = "ConversationMessage"
    /\ applied.content = <<" ", "a">>
    /\ applied.result.ok

\* ------------------------------------------------------------------------
\* Claims about a run of stream_response (checked under Spec)
\* ------------------------------------------------------------------------

Count(seq, x) == Cardinality({i \in DOMAIN seq : seq[i] = x})

IsContentFrame(frame) == frame # DONE_MESSAGE

ContentFrames(frames) == SelectSeq(frames, IsContentFrame)

\* The model id of an attempt of a request, from the settings.
ModelOf(provider, attempt) ==
    IF attempt = "default" THEN PROVIDER_SETTINGS[provider].default_model
                           ELSE PROVIDER_SETTINGS[provider].fallback_model

\* The chunks a request received in one attempt, in order.
RECURSIVE ChunksOf(_, _)
ChunksOf(chunks, attempt) ==
    IF chunks = <<>> THEN <<>>
    ELSE (IF Head(chunks).attempt = attempt THEN <<Head(chunks).chunk>> ELSE <<>>)
         \o ChunksOf(Tail(chunks), attempt)

\* The frames the adapter of request r yields for a sequence of chunks.
RECURSIVE AttemptFrames(_, _, _)
AttemptFrames(r, attempt, chunks) ==
    IF chunks = <<>> THEN <<>>
    ELSE ChunkFrames(rprovider[r], rmessage_id[r], Head(chunks),
                     ModelOf(rprovider[r], attempt))
         \o AttemptFrames(r, attempt, Tail(chunks))

DefaultFrames(r) == AttemptFrames(r, "default", ChunksOf(rchunks[r], "default"))

FallbackFrames(r) == AttemptFrames(r, "fallback", ChunksOf(rchunks[r], "fallback"))

\* C1: when the default or the fallback attempt completes, the frames
\* yielded contain the sentinel exactly once, as their last frame; a run can
\* only end normally that way, and a vendor stream without content chunks
\* gives the sentinel alone.
C1_ExactlyOneDoneLast ==
    \A r \in Reqs :
        /\ Count(rout[r], DONE_MESSAGE) <= 1
        /\ Count(rout[r], DONE_MESSAGE) = 1 => Last(rout[r]) = DONE_MESSAGE
        /\ rpc[r] = "done" =>
              /\ Len(rerrors[r]) <= 1
              /\ Count(rout[r], DONE_MESSAGE) = 1
              /\ ContentFrames(rout[r]) = <<>> => rout[r] = <<DONE_MESSAGE>>

\* C1 witness: a run that ended normally on the fallback attempt, with
\* content frames before the sentinel.
C1_Witness ==
    \E r \in Reqs :
        /\ rpc[r] = "done"
        /\ Len(rerrors[r]) = 1
        /\ Len(rout[r]) >= 2
        /\ Last(rout[r]) = DONE_MESSAGE

\* C2: the first vendor call of a run uses the default model; a second call
\* is made exactly when the default attempt raised, it uses the fallback
\* model, and there is never a third call.
C2_DefaultThenFallbackOnce ==
    \A r \in Reqs :
        LET n == Len(rcalls[r]) IN
        /\ n <= 2
        /\ n >= 1 => /\ rcalls[r][1].attempt = "default"
                     /\ rcalls[r][1].model = ModelOf(rprovider[r], "default")
        /\ n = 2 <=> (rerrors[r] # <<>> /\ rerrors[r][1].attempt = "default")
        /\ n = 2 => /\ rcalls[r][2].attempt = "fallback"
                    /\ rcalls[r][2].model = ModelOf(rprovider[r], "fallback")
        /\ Len(rerrors[r]) <= n

\* C2 witness: a run in which both attempts were made and both raised.
C2_Witness ==
    \E r \in Reqs : Len(rcalls[r]) = 2 /\ Len(rerrors[r]) = 2 /\ rpc[r] = "raised"

\* The contents of the conversation part of a vendor payload (without the
\* system entry the OpenAI and Groq adapters put at its head).
PayloadContents(provider, payload) ==
    IF provider = "gemini" THEN payload
    ELSE LET conversation == IF provider \in {"gpt", "groq"} THEN Tail(payload) ELSE payload
         IN  [i \in DOMAIN conversation |-> conversation[i].content]

\* C3: once the default attempt has failed after k of its frames were
\* yielded, the output starts with those k frames, holds no sentinel among
\* them, the fallback call carries every non-system message of the
\* conversation, and a run that ends normally has yielded the k frames, the
\* fallback frames and one sentinel, in that order.
C3_FallbackAppendsAfterDefaultFrames ==
    \A r \in Reqs :
        Len(rerrors[r]) >= 1 =>
            LET k == Len(DefaultFrames(r)) IN
            /\ Len(rout[r]) >= k
            /\ SubSeq(rout[r], 1, k) = DefaultFrames(r)
            /\ Count(DefaultFrames(r), DONE_MESSAGE) = 0
            /\ Len(rcalls[r]) = 2
            /\ PayloadContents(rprovider[r], rcalls[r][2].messages)
                  = ContentsWithoutRole(rmessages[r], "system")
            /\ rpc[r] = "done" =>
                  rout[r] = DefaultFrames(r) \o FallbackFrames(r) \o <<DONE_MESSAGE>>

\* C3 witness: the default attempt failed after one frame, the fallback
\* attempt yielded a frame and the run ended normally.
C3_Witness ==
    \E r \in Reqs :
        /\ rpc[r] = "done"
        /\ Len(rerrors[r]) = 1
        /\ Len(DefaultFrames(r)) = 1
        /\ Len(FallbackFrames(r)) = 1

\* C4: when both attempts have failed, exactly one error has been raised to
\* the consumer, it is the 500 error naming the provider, the run is over
\* and its output holds no sentinel.
C4_BothFailRaiseOnceNoDone ==
    \A r \in Reqs :
        /\ Len(rraised[r]) <= 1
        /\ Len(rerrors[r]) = 2 =>
              /\ rpc[r] = "raised"
              /\ Len(rraised[r]) = 1
              /\ rraised[r][1].status_code = 500
              /\ \E i \in DOMAIN rraised[r][1].detail :
                    rraised[r][1].detail[i] = rprovider[r]
              /\ Count(rout[r], DONE_MESSAGE) = 0

\* C4 witness: both attempts failed after the default attempt had yielded
\* a frame.
C4_Witness ==
    \E r \in Reqs :
        /\ Len(rerrors[r]) = 2
        /\ rpc[r] = "raised"
        /\ Len(rout[r]) >= 1

\* C5: when both attempts have failed, the error raised to the consumer
\* carries the message of the default attempt's error, the message of the
\* fallback attempt's error and the provider name.
C5_BothMessagesInError ==
    \A r \in Reqs :
        Len(rerrors[r]) = 2 =>
            LET detail == rraised[r][1].detail IN
            /\ \E i \in DOMAIN detail : detail[i] = rerrors[r][1].message
            /\ \E i \in DOMAIN detail : detail[i] = rerrors[r][2].message
            /\ \E i \in DOMAIN detail : detail[i] = rprovider[r]

\* The system instruction a vendor call carries.
SentInstruction(provider, call) ==
    IF provider \in {"gpt", "groq"} THEN call.messages[1].content ELSE call.system

\* The calls whose system instruction is read from the adapter's
\* system_prompt field: every call of the Anthropic and Gemini adapters, and
\* the calls of the OpenAI and Groq adapters for a conversation without
\* system messages.
ReadsAdapterPrompt(provider, messages) ==
    \/ provider \in {"claude", "gemini"}
    \/ ContentsWithRole(messages, "system") = <<>>

\* C7: in every vendor call made for a request, default or fallback, the
\* system instruction read from the adapter is the prompt resolved from the
\* request's own conversation, also when another request to the provider
\* assigned the adapter's system_prompt while the request's stream was open.
C7_OwnSystemPrompt ==
    \A r \in Reqs :
        ReadsAdapterPrompt(rprovider[r], rmessages[r]) =>
            \A i \in DOMAIN rcalls[r] :
                SentInstruction(rprovider[r], rcalls[r][i])
                    = get_system_prompt(rmessages[r], rprovider[r])

RECURSIVE IsSubsequence(_, _)
IsSubsequence(a, b) ==
    IF a = <<>> THEN TRUE
    ELSE IF b = <<>> THEN FALSE
    ELSE IF Head(a) = Head(b) THEN IsSubsequence(Tail(a), Tail(b))
    ELSE IsSubsequence(a, Tail(b))

\* The frame of each vendor chunk of a request that has a text (a non-empty
\* text when nonEmptyOnly),
\* in the order the vendor produced the chunks.
RECURSIVE FramesOfChunks(_, _, _)
FramesOfChunks(r, chunks, nonEmptyOnly) ==
    IF chunks = <<>> THEN <<>>
    ELSE (IF /\ Head(chunks).chunk.has_text
                /\ (nonEmptyOnly => Head(chunks).chunk.text # <<>>)
             THEN <<format_stream_chunk(rmessage_id[r], Head(chunks).chunk.text,
                                        ModelOf(rprovider[r], Head(chunks).attempt))>>
             ELSE <<>>)
         \o FramesOfChunks(r, Tail(chunks), nonEmptyOnly)

\* C8: the content frames yielded are, in the vendor's order, one frame for
\* each chunk that has a non-empty text and at most one frame for each
\* other chunk that has a text, none twice, merged or out of order; and the
\* vendor delivers a chunk only while the consumer is waiting for the next
\* frame, never while a frame it was handed is still unanswered.
C8_FramesInVendorOrder ==
    /\ [](\A r \in Reqs :
            /\ IsSubsequence(FramesOfChunks(r, rchunks[r], TRUE), ContentFrames(rout[r]))
            /\ IsSubsequence(ContentFrames(rout[r]), FramesOfChunks(r, rchunks[r], FALSE)))
    /\ [][\A r \in Reqs : rchunks'[r] # rchunks[r] => rpc[r] = "pulling"]_vars

\* C8 witness: two content frames of different chunks have been yielded.
C8_Witness ==
    \E r \in Reqs :
        /\ Len(ContentFrames(rout[r])) >= 2
        /\ rout[r][1] # rout[r][2]

\* C22: the content frames yielded for a request are exactly the frames of
\* its vendor chunks that have a non-empty text, one each; a chunk whose
\* text is empty or absent yields no frame, whatever the adapter.
C22_OneFramePerNonEmptyChunk ==
    \A r \in Reqs :
        ContentFrames(rout[r]) = FramesOfChunks(r, rchunks[r], TRUE)

\* C23: a vendor fault ends the adapter's sequence by raising to
\* try_with_models: on the step of the fault no frame is yielded (no
\* sentinel either) and the run does not end normally; the fault of the
\* default attempt starts the fallback attempt, the fault of the fallback
\* attempt raises to the consumer, whose output then holds no sentinel.
C23_VendorFaultRaises ==
    /\ [](\A r \in Reqs :
            /\ Len(rerrors[r]) >= 1 => rattempt[r] = "fallback"
            /\ Len(rerrors[r]) = 2 =>
                  rpc[r] = "raised" /\ Count(rout[r], DONE_MESSAGE) = 0)
    /\ [][\A r \in Reqs :
            rerrors'[r] # rerrors[r] =>
                /\ rout'[r] = rout[r]
                /\ rpc'[r] # "done"
                /\ \/ rattempt[r] = "default" /\ rattempt'[r] = "fallback"
                                               /\ Len(rcalls'[r]) = Len(rcalls[r]) + 1
                   \/ rattempt[r] = "fallback" /\ Len(rraised'[r]) = Len(rraised[r]) + 1]_vars

\* C23 witness: the vendor stream of the default attempt raised after a
\* frame, and the vendor call of the fallback attempt raised another error.
C23_Witness ==
    \E r \in Reqs :
        /\ Len(rerrors[r]) = 2
        /\ rerrors[r][1].message # rerrors[r][2].message
        /\ Len(rout[r]) = 1
        /\ ChunksOf(rchunks[r], "fallback") = <<>>

\* C29: every request that reached a vendor call resolved its system prompt
\* exactly once, as the first thing it did and before the first vendor
\* call, which carries the resolved prompt where the adapter's field is
\* read; no later step of the request (a chunk, the fallback attempt, the
\* end) resolves it again.
C29_PromptResolvedOncePerRequest ==
    /\ [](\A r \in Reqs :
            /\ Count(revents[r], "get_system_prompt") = (IF rcalls[r] = <<>> THEN 0 ELSE 1)
            /\ rcalls[r] # <<>> =>
                  /\ revents[r][1] = "get_system_prompt"
                  /\ ReadsAdapterPrompt(rprovider[r], rmessages[r]) =>
                        SentInstruction(rprovider[r], rcalls[r][1])
                            = get_system_prompt(rmessages[r], rprovider[r]))
    /\ [][\A r \in Reqs :
            rpc[r] # "idle" =>
                Count(revents'[r], "get_system_prompt")
                    = Count(revents[r], "get_system_prompt")]_vars

\* C29 witness: a run with both attempts and two chunks has one resolution.
C29_Witness ==
    \E r \in Reqs :
        /\ Len(rcalls[r]) = 2
        /\ Len(rchunks[r]) = 2
        /\ Count(revents[r], "get_system_prompt") = 1

\* C27: a request whose vendor stream delivered a malformed chunk does not
\* fail: nothing is raised to its consumer, and when its run has ended it
\* has yielded at least one frame, the last of which is the sentinel.
C27_MalformedChunkTolerated ==
    \A r \in Reqs :
        (\E i \in DOMAIN rchunks[r] : ~rchunks[r][i].chunk.well_formed) =>
            /\ rpc[r] # "raised"
            /\ rraised[r] = <<>>
            /\ rpc[r] = "done" => rout[r] # <<>> /\ Last(rout[r]) = DONE_MESSAGE

\* C24: no request whose consumer went away has left the vendor stream of
\* its current attempt open, whatever the adapter.
C24_CancelClosesVendorStream ==
    \A r \in Reqs :
        rpc[r] = "cancelled" => rcancel[r].stream # "open"

\* The calls of log_conversation_entry in the history of a request, and
\* the calls of a logging-store function in the history of the endpoint.
LogEntryCalls(events) ==
    Count(events, "log_conversation_entry") + Count(events, "log_conversation_entry failed")

StoreCalls(store, call) == Cardinality({i \in DOMAIN store : store[i][1] = call})

\* C25: a failing logging call changes nothing the client sees. Stream: the
\* step that calls log_conversation_entry adds no frame, raises nothing and
\* ends the run normally whether or not the write succeeded, and a finished
\* run has delivered the frames of its chunks and the sentinel. Endpoint:
\* for a supported provider the response is status 200 with the same frames
\* whatever log_conversation_start and log_message did, and a response that
\* broke off did so for an error that is not the store's.
C25_LoggingFailureNeverAborts ==
    /\ [](/\ \A r \in Reqs :
                /\ rpc[r] = "done" =>
                      rout[r] = DefaultFrames(r) \o FallbackFrames(r) \o <<DONE_MESSAGE>>
                /\ \A i \in DOMAIN rraised[r] : rraised[r][i].kind = "error"
           /\ chat.pc # "idle" /\ chat.provider \in Supported =>
                /\ chat.status = 200
                /\ chat.frames = <<>>
                /\ chat.pc \in {"streaming", "aborted"}
                /\ chat.pc = "aborted" => chat.error = <<BindError>>)
    /\ [][\A r \in Reqs :
            LogEntryCalls(revents'[r]) # LogEntryCalls(revents[r]) =>
                /\ rout'[r] = rout[r]
                /\ rraised'[r] = rraised[r]
                /\ rpc'[r] = "done"]_vars

\* C25 witness: the write of the conversation log failed for a run that
\* delivered a content frame and the sentinel, and the store failed for
\* both calls of the endpoint, which went on to status 200.
C25_Witness ==
    /\ \E r \in Reqs :
          /\ rpc[r] = "done"
          /\ Len(rout[r]) = 2
          /\ Last(revents[r]) = "log_conversation_entry failed"
    /\ chat.pc = "aborted"
    /\ chat.status = 200
    /\ chat.store = <<<<"log_conversation_start", "failed">>, <<"log_message user", "failed">>>>

C28_EarlyFailureIs500 ==
    chat.pc = "aborted" /\ chat.frames = <<>> =>
        /\ chat.status = 500
        /\ IsSubsequence(ExceptionText(chat.error[1]), chat.detail)

\* The error an attempt recorded came from its format_messages call.
IsFormatError(error) == "input" \in DOMAIN error

\* C31: when format_messages raises in the default attempt, the error is not
\* what the caller sees: a fallback attempt follows, it calls format_messages
\* with the whole conversation of the request, and what is raised is the
\* terminal error of try_with_models.
C31_FormatErrorStartsFallback ==
    \A r \in Reqs :
        (rerrors[r] # <<>> /\ IsFormatError(rerrors[r][1]) /\ rerrors[r][1].attempt = "default")
            => /\ Len(rerrors[r]) = 2
               /\ rattempt[r] = "fallback"
               /\ rerrors[r][2].attempt = "fallback"
               /\ IsFormatError(rerrors[r][2])
               /\ rerrors[r][2].input = rmessages[r]
               /\ rerrors[r][2].input[1] = rmessages[r][1]
               /\ Len(rraised[r]) = 1
               /\ rraised[r][1].status_code = 500
               /\ rraised[r][1].detail[1] = "Both default and fallback models failed for provider "

\* A request whose user message has no content has failed in both attempts.
C31_Witness ==
    \E r \in Reqs :
        /\ rpc[r] = "raised"
        /\ rmessages[r] = NoContentConversation
        /\ Len(rerrors[r]) = 2
        /\ IsFormatError(rerrors[r][1])
        /\ rcalls[r] = <<>>

\* The id and the model a client reads from a content frame: json.loads of
\* what lies between "data: " and the blank line.
FrameFields(frame) ==
    LET s       == Flatten(frame)
        decoded == JsonLoads(SubSeq(s, 7, Len(s) - 2))
    IN  [id |-> decoded.value[1].value, model |-> decoded.value[2].value[2].value]

\* C32: each content frame is appended to the output carrying the model id
\* of the attempt that is running (default_model in the default attempt,
\* fallback_model in the fallback attempt) and the message id
\* "<provider>-<epoch_ms>" the request was given when it started; the
\* default attempt never follows the fallback attempt, so the frames of the
\* default model come first; and the message id does not change while the
\* request runs.
C32_FramesCarryAttemptModelAndOneId ==
    [][\A r \in Reqs :
          /\ rpc[r] # "idle" => rmessage_id'[r] = rmessage_id[r]
          /\ rattempt[r] = "fallback" => rattempt'[r] = "fallback"
          /\ rout'[r] # rout[r] =>
                /\ rout'[r] = Append(rout[r], Last(rout'[r]))
                /\ rattempt'[r] = rattempt[r]
                /\ IsContentFrame(Last(rout'[r])) =>
                      /\ FrameFields(Last(rout'[r])).id = Flatten(rmessage_id[r])
                      /\ FrameFields(Last(rout'[r])).model =
                            Flatten(ModelOf(rprovider[r], rattempt[r]))
                      /\ \E ms \in EpochMs :
                            rmessage_id[r] = <<rprovider[r], "-", ToString(ms)>>]_vars

\* C32 witness: a frame of the default model is followed by a frame of the
\* fallback model.
C32_Witness ==
    \E r \in Reqs :
        LET frames == ContentFrames(rout[r])
        IN  /\ Len(frames) = 2
            /\ FrameFields(frames[1]).model = Flatten(ModelOf(rprovider[r], "default"))
            /\ FrameFields(frames[2]).model = Flatten(ModelOf(rprovider[r], "fallback"))
            /\ FrameFields(frames[1]).id = FrameFields(frames[2]).id

\* C33: when the consumer is cancelled or closes the generator while the
\* default attempt is streaming, the run stops there: no fallback call is
\* made, no attempt is recorded as failed, no frame and no sentinel is
\* added, no error is raised, and nothing of the run changes afterwards.
C33_CancelIsNotAFailure ==
    /\ [][\A r \in Reqs :
            (rattempt[r] = "default" /\ Cancel(r))
                => /\ rpc'[r] = "cancelled"
                   /\ rattempt'[r] = "default"
                   /\ rcalls'[r] = rcalls[r]
                   /\ rerrors'[r] = rerrors[r]
                   /\ rout'[r] = rout[r]
                   /\ rraised'[r] = rraised[r]]_vars
    /\ [][\A r \in Reqs :
            rpc[r] = "cancelled"
                => /\ rpc'[r] = "cancelled"
                   /\ rattempt'[r] = rattempt[r]
                   /\ rcalls'[r] = rcalls[r]
                   /\ rerrors'[r] = rerrors[r]
                   /\ rout'[r] = rout[r]
                   /\ rraised'[r] = rraised[r]]_vars

\* C33 witness: the run was cancelled in its default attempt, one frame
\* yielded and the next chunk awaited; it made one vendor call, recorded no
\* failure and raised nothing.
C33_Witness ==
    \E r \in Reqs :
        /\ rpc[r] = "cancelled"
        /\ rcancel[r].cancelled
        /\ rcancel[r].at = "pulling"
        /\ rattempt[r] = "default"
        /\ Len(rout[r]) = 1
        /\ Len(rcalls[r]) = 1
        /\ rerrors[r] = <<>>
        /\ rraised[r] = <<>>

\* C36: the vendor call of a health check carries the literal calculator
\* instruction; no step of a health check changes an adapter that exists
\* (it can only construct one that is missing); and with a health check
\* running before, between or after the steps of a chat request, every
\* vendor call of the request is the one made from the request's own
\* conversation and the adapter's configured models.
C36_HealthCheckLeavesAdapter ==
    /\ [](health.pc = "awaiting" =>
            /\ health.probe.system = CalculatorPrompt
            /\ health.probe.model = PROVIDER_SETTINGS[health.provider].default_model)
    /\ [][health' # health =>
            \A p \in ProviderNames : \A i \in DOMAIN adapters[p] :
                adapters'[p][i] = adapters[p][i]]_vars
    /\ [](\A r \in Reqs : \A i \in DOMAIN rcalls[r] :
            rcalls[r][i] =
                OpenAttempt(rprovider[r], rcalls[r][i].attempt, rmessages[r],
                            AssignSystemPrompt(NewAdapter(rprovider[r]), rmessages[r],
                                               rprovider[r])))

\* C36 witness: a health check of the provider is waiting for the vendor's
\* reply while a request to that provider, one frame yielded, waits in its
\* fallback attempt.
C36_Witness ==
    \E r \in Reqs :
        /\ health.pc = "awaiting"
        /\ health.provider = rprovider[r]
        /\ rpc[r] = "pulling"
        /\ rattempt[r] = "fallback"
        /\ Len(rcalls[r]) = 2
        /\ Len(rout[r]) = 1
        /\ adapters[rprovider[r]][instances[rprovider[r]]].system_prompt # CalculatorPrompt

\* The run of try_with_models of request r is over: the sentinel has been
\* yielded, or the terminal error has been raised.
Terminated(r) ==
    \/ rout[r] # <<>> /\ Last(rout[r]) = DONE_MESSAGE
    \/ rraised[r] # <<>> /\ Len(rerrors[r]) = 2

\* C38: when the vendor keeps answering and the consumer keeps pulling, a
\* run of try_with_models that has opened its default attempt always comes
\* to an end: the sentinel is yielded or the terminal error is raised.
C38_RunTerminates ==
    \A r \in Reqs : (rcalls[r] # <<>>) ~> Terminated(r)

\* C38 witness: a run has ended with the terminal error after a frame of the
\* default attempt and a frame of the fallback attempt were yielded.
C38_Witness ==
    \E r \in Reqs :
        /\ Terminated(r)
        /\ rpc[r] = "raised"
        /\ Len(rout[r]) = 2
        /\ Len(rcalls[r]) = 2

\* C12: a stream_response call for a name outside the supported set raises
\* the 400 not-supported error on its first pull: nothing has been yielded,
\* no message id or vendor call was made, and the step resolves and
\* constructs no adapter and assigns no adapter's system_prompt.
C12_UnsupportedStreamRaisesFirst ==
    /\ [](\A r \in Reqs :
            (rpc[r] # "idle" /\ rprovider[r] \notin Supported) =>
                /\ rpc[r] = "raised"
                /\ rraised[r] = <<[kind |-> "error", status_code |-> 400,
                                   detail |-> <<"Provider ", rprovider[r], " not supported">>]>>
                /\ rout[r] = <<>>
                /\ rcalls[r] = <<>>
                /\ rmessage_id[r] = <<>>
                /\ adapters[rprovider[r]] = <<>>
                /\ instances[rprovider[r]] = NoInstance)
    /\ [][\A r \in Reqs :
            (rpc[r] = "idle" /\ rpc'[r] # "idle" /\ rprovider'[r] \notin Supported)
                => UNCHANGED <<instances, adapters>>]_vars

\* C12 witness: a request for groq, which the deployment does not support,
\* has raised while an adapter of a supported provider sits in the cache.
C12_Witness ==
    \E r \in Reqs :
        /\ rprovider[r] = "groq"
        /\ rpc[r] = "raised"
        /\ rraised[r] = <<UnsupportedError("groq")>>
        /\ instances["claude"] # NoInstance

\* ------------------------------------------------------------------------
\* Claims about the registry (checked under SpecFactory)
\* ------------------------------------------------------------------------

\* A caller whose get_provider(provider_name) call has ended.
Ended(t, provider_name) ==
    /\ tpc[t] = "idle"
    /\ top[t] = "get_provider"
    /\ targ[t] = provider_name

\* C6: whatever the number of concurrent first calls of get_provider for a
\* supported, configured name, at most one adapter is ever constructed for
\* the name and every caller receives that same adapter.
C6_AtMostOneInstance ==
    \A n \in Supported :
        api_key[n] =>
            /\ Len(adapters[n]) <= 1
            /\ \A t \in Callers :
                  (Ended(t, n) /\ tret[t].kind = "ok")
                      => tret[t].instance = first_instance[n]

\* C9: once a get_provider call for a name has returned an adapter, every
\* call for that name begun afterwards returns that identical adapter and
\* does not enter the constructor.
C9_Idempotent ==
    \A t \in Callers :
        (top[t] = "get_provider" /\ tafter[t] # NoInstance)
            => /\ tpc[t] \notin {"init", "init_store"}
               /\ tret[t].kind = "ok" => tret[t].instance = tafter[t]

\* C34: a name that is in the cache keeps the adapter it was cached with,
\* whatever get_provider, initialize_all_providers or get_all_providers call
\* runs, and every name in the cache is supported, has an adapter class and
\* has an API key.
C34_CacheOnlyGrows ==
    /\ [](\A n \in ProviderNames :
            instances[n] # NoInstance
                => /\ n \in Supported
                   /\ n \in DOMAIN provider_classes
                   /\ api_key[n])
    /\ [][\A n \in ProviderNames :
            instances[n] # NoInstance => instances'[n] = instances[n]]_vars

\* C35: when the constructor raises in a get_provider call, the step caches
\* nothing and raises nothing, the call ends with the
\* could-not-be-initialized error, and no failure is remembered: a call that
\* finds no cache entry for the name goes to the constructor again.
C35_FailedConstructionNotRemembered ==
    /\ [](\A t \in Callers : \A n \in Supported :
            (Ended(t, n) /\ tlog[t] = InitializeError) => tret[t] = UnavailableError(n))
    /\ [][\A t \in Callers :
            (tlog[t] # InitializeError /\ tlog'[t] = InitializeError)
                => /\ instances' = instances
                   /\ adapters' = adapters
                   /\ tret' = tret]_vars
    /\ [][\A t \in Callers :
            (/\ tpc[t] = "gp_check"
             /\ tpc'[t] # "gp_check"
             /\ instances[targ[t]] = NoInstance)
                => tpc'[t] = "init"]_vars

\* C10: for a supported name whose API key is absent, every get_provider
\* call, sequential or concurrent, ends with the could-not-be-initialized
\* error, no adapter is returned or constructed, and the cache never holds
\* an entry for the name.
C10_UnconfiguredAlwaysFails ==
    \A n \in Supported :
        ~api_key[n] =>
            /\ instances[n] = NoInstance
            /\ adapters[n] = <<>>
            /\ \A t \in Callers :
                  /\ Ended(t, n) => tret[t] = UnavailableError(n)
                  /\ targ[t] = n => tpc[t] \notin {"init_store", "gp_return"}

\* C11: a get_provider call for a name outside the supported set ends at
\* once with the 400 not-supported error, which differs from the
\* could-not-be-initialized error; the call never enters
\* _initialize_provider, no adapter of that name is ever constructed or
\* cached, and the step of the call leaves the cache and the adapters as
\* they were.
C11_UnsupportedFailsAtOnce ==
    /\ [](\A n \in ProviderNames \ Supported :
            /\ instances[n] = NoInstance
            /\ adapters[n] = <<>>
            /\ \A t \in Callers :
                  (top[t] = "get_provider" /\ targ[t] = n) =>
                      /\ tpc[t] = "idle"
                      /\ tret[t] = [kind |-> "error", status_code |-> 400,
                                    detail |-> <<"Provider ", n, " not supported">>]
                      /\ tret[t] # UnavailableError(n))
    /\ [][\A t \in Callers :
            (/\ top'[t] = "get_provider"
             /\ targ'[t] \notin Supported
             /\ <<top[t], targ[t]>> # <<top'[t], targ'[t]>>)
                => UNCHANGED <<instances, adapters>>]_vars

\* C11 witness: a get_provider call for groq has failed while the cache
\* holds an adapter of a supported provider.
C11_Witness ==
    \E t \in Callers :
        /\ Ended(t, "groq")
        /\ tret[t] = UnsupportedError("groq")
        /\ \E n \in Supported : instances[n] # NoInstance

\* C10 witness: both callers have called get_provider for the same
\* unconfigured name and both calls have failed.
C10_Witness ==
    \E n \in Supported :
        /\ ~api_key[n]
        /\ \A t \in Callers : Ended(t, n) /\ tret[t] = UnavailableError(n)

====
